---------------------------- MODULE Spec2Model ----------------------------
(***************************************************************************)
(* A model of the lazy-latex extension: the wrapper scanner                *)
(* (findWrappersInLine), the batch response demultiplexer                   *)
(* (generateLatexForBatch), the line processor (processLineForWrappers)     *)
(* and the document-change handler with its re-entrancy flag.               *)
(*                                                                         *)
(* Text is a sequence of one-character strings.  Indices are those of the  *)
(* JavaScript source (0-based, half-open ranges); At and Slice translate    *)
(* them to TLA+ sequences.                                                  *)
(***************************************************************************)
EXTENDS Integers, Sequences, FiniteSets, TLC

VARIABLES
  \* ---- scanner harness (findWrappersInLine as a pure function) ----
  lineText,      \* the line handed to findWrappersInLine
  languageId,    \* 'latex' or 'markdown'
  results,       \* the array findWrappersInLine returned
  shortened,     \* the line with the last marker's span deleted
  rescanned,     \* findWrappersInLine of the shortened line
  scanPc,        \* "input" | "looping" | "scanned" | "rescanned"
  scanI,         \* the index i of the outer loop of findWrappersInLine
  \* ---- batch response harness (generateLatexForBatch) ----
  content,       \* the text content of the provider's response
  descriptions,  \* the descriptions array handed to generateLatexForBatch
  outputs,       \* the array generateLatexForBatch returned
  demuxPc,       \* "called" | "returned"
  \* ---- system prompt harness (llmClient.js) ----
  promptKind,    \* "single" | "batch" | "anything": the generate function
  promptFile,    \* the workspace file .lazy-latex.md
  promptExtra,   \* the lazy-latex.prompt.extra setting
  systemPrompt,  \* the system prompt handed to callChatCompletion
  promptPc,      \* "called" | "built"
  \* ---- the extension in its host ----
  doc,                      \* the lines of the text document
  activeEditor,             \* "doc" | "other" | "none": the active editor
  docLanguageId,            \* the document's languageId
  config,                   \* the lazy-latex settings read by the code
  isApplyingLazyLatexEdit,  \* extension.js:50
  tasks,                    \* the processLineForWrappers invocations
  userEvents,               \* change events raised by the user so far
  ownEditScanned            \* the handler scanned a line for an event
                            \* raised by an edit of processLineForWrappers

scanVars ==
  <<lineText, languageId, results, shortened, rescanned, scanPc, scanI>>

demuxVars == <<content, descriptions, outputs, demuxPc>>

promptVars == <<promptKind, promptFile, promptExtra, systemPrompt, promptPc>>

hostVars ==
  <<doc, activeEditor, docLanguageId, config, isApplyingLazyLatexEdit,
    tasks, userEvents, ownEditScanned>>

vars == <<scanVars, demuxVars, promptVars, hostVars>>

---------------------------------------------------------------------------
(* Bounds of the model.                                                    *)

\* Longest line body (over the two-letter alphabet) the scanner is given.
MaxLineLen == 11

\* Longest response content of the batch response harness.
MaxContentLen == 5

\* Most descriptions of one batch call in the batch response harness.
MaxDescriptions == 3

\* Most processLineForWrappers invocations of one behaviour.
MaxTasks == 2

\* Most change events raised by the user in one behaviour.
MaxUserEvents == 2

\* The number of pieces a line of SpecLine is made of.
MaxSegments == 3

\* Number of lines of a document of SpecContext.
MaxDocLines == 3

\* Length of the text of an extra-instructions source.
MaxExtraLen == 2

\* Length of the body of a line of SpecLoop.
MaxLoopLen == 7

---------------------------------------------------------------------------
(* Strings as sequences of characters.                                     *)

\* lineText[i] of the source (0-based).
At(s, i) == s[i + 1]

\* s.slice(a, b) for 0 <= a <= b <= s.length.
Slice(s, a, b) == SubSeq(s, a + 1, b)

\* The characters String.prototype.trim removes that the model's inputs use.
Whitespace == {" ", "\t", "\r", "\n"}

RECURSIVE TrimStart(_)
TrimStart(s) ==
  IF Len(s) > 0 /\ s[1] \in Whitespace THEN TrimStart(Tail(s)) ELSE s

RECURSIVE TrimEnd(_)
TrimEnd(s) ==
  IF Len(s) > 0 /\ s[Len(s)] \in Whitespace
    THEN TrimEnd(SubSeq(s, 1, Len(s) - 1))
    ELSE s

\* String.prototype.trim
Trim(s) == TrimEnd(TrimStart(s))

\* String.prototype.startsWith / endsWith
StartsWith(s, p) == Len(s) >= Len(p) /\ SubSeq(s, 1, Len(p)) = p

EndsWith(s, p) ==
  Len(s) >= Len(p) /\ SubSeq(s, Len(s) - Len(p) + 1, Len(s)) = p

\* Every string over alphabet A of length at most n.
StringsUpTo(A, n) == UNION {[1..k -> A] : k \in 0..n}

---------------------------------------------------------------------------
(* wrappers.js: findWrappersInLine                                         *)

LanguageIds == {"latex", "markdown"}

\* wrappers.js:19-33: the two early returns for comment-only lines.
IsCommentLineNoTrim(lineText_, languageId_) ==
  \/ languageId_ = "latex" /\ StartsWith(lineText_, <<"%">>)
  \/ /\ languageId_ = "markdown"
     /\ StartsWith(lineText_, <<"<", "!", "-", "-">>)
     /\ EndsWith(lineText_, <<"-", "-", ">">>)

IsCommentLine(lineText_, languageId_) ==
  LET trimmed == Trim(lineText_) IN
  \/ languageId_ = "latex" /\ StartsWith(trimmed, <<"%">>)
  \/ /\ languageId_ = "markdown"
     /\ StartsWith(trimmed, <<"<", "!", "-", "-">>)
     /\ EndsWith(trimmed, <<"-", "-", ">">>)

\* wrappers.js:42-45 and 66-69: the index just after the run of ';' that
\* holds position j (j itself when lineText[j] is not ';').
RECURSIVE RunEnd(_, _)
RunEnd(lineText_, j) ==
  IF j < Len(lineText_) /\ At(lineText_, j) = ";"
    THEN RunEnd(lineText_, j + 1)
    ELSE j

\* wrappers.js:48-56: the type of a wrapper from its delimiter count.
WrapperType(count) ==
  IF count = 2 THEN "inline"
  ELSE IF count = 3 THEN "display"
  ELSE "anything"

\* Mutant of FindCloser: a run at least as long as the opener closes it.
RECURSIVE FindCloserAtLeast(_, _, _)
FindCloserAtLeast(lineText_, k, count) ==
  IF k >= Len(lineText_)
    THEN [found |-> FALSE, k |-> k, m |-> k]
    ELSE IF At(lineText_, k) = ";"
      THEN LET m == RunEnd(lineText_, k) IN
           IF m - k >= count
             THEN [found |-> TRUE, k |-> k, m |-> m]
             ELSE FindCloserAtLeast(lineText_, m, count)
      ELSE FindCloserAtLeast(lineText_, k + 1, count)

\* wrappers.js:64-91: the search for the closing delimiter from index k.
\* found: whether a run of exactly count was met; k its first index and m
\* the index after it.
RECURSIVE FindCloser(_, _, _)
FindCloser(lineText_, k, count) ==
  IF k >= Len(lineText_)
    THEN [found |-> FALSE, k |-> k, m |-> k]
    ELSE IF At(lineText_, k) = ";"
      THEN LET m == RunEnd(lineText_, k) IN
           IF m - k = count
             THEN [found |-> TRUE, k |-> k, m |-> m]
             ELSE FindCloser(lineText_, m, count)
      ELSE FindCloser(lineText_, k + 1, count)

\* Mutant of ScanStep: after a wrapper the scan resumes after the opener
\* (i = j) instead of after the closer (i = m).
ScanStepResumeAfterOpener(lineText_, i) ==
  IF At(lineText_, i) = ";"
    THEN LET j == RunEnd(lineText_, i)
             count == j - i
         IN IF count = 2 \/ count = 3 \/ count = 4
              THEN LET c == FindCloser(lineText_, j, count) IN
                   IF c.found
                     THEN [i |-> j,
                           push |-> <<[type |-> WrapperType(count),
                                       inner |-> Slice(lineText_, j, c.k),
                                       start |-> i,
                                       end |-> c.m]>>]
                     ELSE [i |-> j, push |-> <<>>]
              ELSE [i |-> j, push |-> <<>>]
    ELSE [i |-> i + 1, push |-> <<>>]

\* Mutant of ScanStep: any run of two or more ';' opens a wrapper.
ScanStepAnyCount(lineText_, i) ==
  IF At(lineText_, i) = ";"
    THEN LET j == RunEnd(lineText_, i)
             count == j - i
         IN IF count >= 2
              THEN LET c == FindCloser(lineText_, j, count) IN
                   IF c.found
                     THEN [i |-> c.m,
                           push |-> <<[type |-> WrapperType(count),
                                       inner |-> Slice(lineText_, j, c.k),
                                       start |-> i,
                                       end |-> c.m]>>]
                     ELSE [i |-> j, push |-> <<>>]
              ELSE [i |-> j, push |-> <<>>]
    ELSE [i |-> i + 1, push |-> <<>>]

\* Mutant of ScanStep: inner is sliced from the opener, not from the
\* index after it.
ScanStepInnerFromOpener(lineText_, i) ==
  IF At(lineText_, i) = ";"
    THEN LET j == RunEnd(lineText_, i)
             count == j - i
         IN IF count = 2 \/ count = 3 \/ count = 4
              THEN LET c == FindCloser(lineText_, j, count) IN
                   IF c.found
                     THEN [i |-> c.m,
                           push |-> <<[type |-> WrapperType(count),
                                       inner |-> Slice(lineText_, i, c.k),
                                       start |-> i,
                                       end |-> c.m]>>]
                     ELSE [i |-> j, push |-> <<>>]
              ELSE [i |-> j, push |-> <<>>]
    ELSE [i |-> i + 1, push |-> <<>>]

\* Mutant of ScanStep: an opener without a closer ends the scan of the
\* line.
ScanStepStopsAtUnclosed(lineText_, i) ==
  IF At(lineText_, i) = ";"
    THEN LET j == RunEnd(lineText_, i)
             count == j - i
         IN IF count = 2 \/ count = 3 \/ count = 4
              THEN LET c == FindCloser(lineText_, j, count) IN
                   IF c.found
                     THEN [i |-> c.m,
                           push |-> <<[type |-> WrapperType(count),
                                       inner |-> Slice(lineText_, j, c.k),
                                       start |-> i,
                                       end |-> c.m]>>]
                     ELSE [i |-> Len(lineText_), push |-> <<>>]
              ELSE [i |-> j, push |-> <<>>]
    ELSE [i |-> i + 1, push |-> <<>>]

\* wrappers.js:40-103: one iteration of the outer loop at index i < n.
\* i: the index the next iteration starts at; push: what the iteration
\* appends to results (nothing, or one wrapper).
ScanStep(lineText_, i) ==
  IF At(lineText_, i) = ";"
    THEN LET j == RunEnd(lineText_, i)
             count == j - i
         IN IF count = 2 \/ count = 3 \/ count = 4
              THEN LET c == FindCloser(lineText_, j, count) IN
                   IF c.found
                     THEN [i |-> c.m,
                           push |-> <<[type |-> WrapperType(count),
                                       inner |-> Slice(lineText_, j, c.k),
                                       start |-> i,
                                       end |-> c.m]>>]
                     ELSE [i |-> j, push |-> <<>>]
              ELSE [i |-> j, push |-> <<>>]
    ELSE [i |-> i + 1, push |-> <<>>]

\* wrappers.js:35-106: the outer loop from index i with the results so far.
RECURSIVE ScanLoop(_, _, _)
ScanLoop(lineText_, i, acc) ==
  IF i < Len(lineText_)
    THEN LET st == ScanStep(lineText_, i) IN
         ScanLoop(lineText_, st.i, acc \o st.push)
    ELSE acc

\* Mutant of findWrappersInLine: the comment checks look at the untrimmed
\* line.
findWrappersInLineNoTrim(lineText_, languageId_) ==
  IF IsCommentLineNoTrim(lineText_, languageId_)
    THEN <<>>
    ELSE ScanLoop(lineText_, 0, <<>>)

\* Mutant of findWrappersInLine: the markdown check is dropped.
findWrappersInLineLatexOnly(lineText_, languageId_) ==
  IF languageId_ = "latex" /\ StartsWith(Trim(lineText_), <<"%">>)
    THEN <<>>
    ELSE ScanLoop(lineText_, 0, <<>>)

\* wrappers.js:18-107
findWrappersInLine(lineText_, languageId_) ==
  IF IsCommentLine(lineText_, languageId_)
    THEN <<>>
    ELSE ScanLoop(lineText_, 0, <<>>)

---------------------------------------------------------------------------
(* The scanner harness: a line is drawn, scanned, and scanned again with   *)
(* the span of its last wrapper deleted.                                    *)

\* The body of a line: ';' and one other, non-blank character.
BodyAlphabet == {";", "-"}

LinePrefixes == {<<>>, <<"%">>, <<" ", "%">>, <<"<", "!", "-", "-">>}

LineSuffixes == {<<>>, <<"-", ">">>, <<"-", ">", " ">>}

\* The line of the two-wrapper scenario: ';;a;; and ;;;b;;;'
TwoWrapperLine ==
  <<";", ";", "a", ";", ";", " ", "a", "n", "d", " ",
    ";", ";", ";", "b", ";", ";", ";">>

\* A wrapper of one type inside a wrapper of another: ';;;x;;a;;y;;;'
NestedWrapperLine ==
  <<";", ";", ";", "x", ";", ";", "a", ";", ";", "y", ";", ";", ";">>

ScanInputs ==
  {p \o b \o s : p \in LinePrefixes,
                 b \in StringsUpTo(BodyAlphabet, MaxLineLen),
                 s \in LineSuffixes}
    \cup {TwoWrapperLine, NestedWrapperLine}

\* The line with the characters [start, end) deleted.
RemoveSpan(s, start, end) == Slice(s, 0, start) \o Slice(s, end, Len(s))

\* The lazy-latex.llm.* settings as the provider call sees them: whether
\* apiKey, endpoint and model are set (non-empty), and the provider name.
LlmOk ==
  [apiKey |-> TRUE, endpoint |-> TRUE, model |-> TRUE, provider |-> "openai"]

\* The lazy-latex.context.lines setting: not set, null, or a number.
ContextLinesUnset == [kind |-> "unset", value |-> 0]

\* The scanner harness at rest.
ScanIdle ==
  /\ lineText = <<>>
  /\ languageId = "latex"
  /\ results = <<>>
  /\ shortened = <<>>
  /\ rescanned = <<>>
  /\ scanPc = "idle"
  /\ scanI = 0

\* The batch response harness at rest.
DemuxIdle ==
  /\ content = <<>>
  /\ descriptions = <<>>
  /\ outputs = <<>>
  /\ demuxPc = "idle"

\* No workspace file, or one with the text it holds.
NoPromptFile == [kind |-> "absent", text |-> <<>>]

PromptFileWith(text) == [kind |-> "file", text |-> text]

\* The prompt.extra setting: not a string, or the string it holds.
PromptExtraOther == [kind |-> "other", text |-> <<>>]

PromptExtraString(text) == [kind |-> "string", text |-> text]

\* The system prompt harness at rest.
PromptIdle ==
  /\ promptKind = "single"
  /\ promptFile = NoPromptFile
  /\ promptExtra = PromptExtraOther
  /\ systemPrompt = <<>>
  /\ promptPc = "idle"

\* The extension before any document is edited.
HostIdle ==
  /\ doc = <<>>
  /\ activeEditor = "none"
  /\ docLanguageId = "latex"
  /\ config = [autoReplace |-> TRUE, keepOriginalComment |-> FALSE,
               inlineStyle |-> "dollar", displayStyle |-> "brackets",
               llm |-> LlmOk, contextLines |-> ContextLinesUnset]
  /\ isApplyingLazyLatexEdit = FALSE
  /\ tasks = <<>>
  /\ userEvents = 0
  /\ ownEditScanned = FALSE

ScanInit ==
  /\ DemuxIdle
  /\ PromptIdle
  /\ HostIdle
  /\ lineText \in ScanInputs
  /\ languageId \in LanguageIds
  /\ results = <<>>
  /\ shortened = <<>>
  /\ rescanned = <<>>
  /\ scanPc = "input"
  /\ scanI = 0

\* A call of findWrappersInLine (extension.js:294).
Scan ==
  /\ scanPc = "input"
  /\ results' = findWrappersInLine(lineText, languageId)
  /\ scanPc' = "scanned"
  /\ UNCHANGED <<lineText, languageId, shortened, rescanned, scanI>>
  /\ UNCHANGED <<demuxVars, promptVars, hostVars>>

\* The last wrapper's span is deleted and the line is scanned again.
RemoveLastAndRescan ==
  /\ scanPc = "scanned"
  /\ Len(results) > 0
  /\ LET last == results[Len(results)] IN
     /\ shortened' = RemoveSpan(lineText, last.start, last.end)
     /\ rescanned' = findWrappersInLine(shortened', languageId)
  /\ scanPc' = "rescanned"
  /\ UNCHANGED <<lineText, languageId, results, scanI>>
  /\ UNCHANGED <<demuxVars, promptVars, hostVars>>

ScanNext == Scan \/ RemoveLastAndRescan

SpecScan == ScanInit /\ [][ScanNext]_vars

---------------------------------------------------------------------------
(* findWrappersInLine run one iteration of its outer loop at a time.       *)

\* Mutant of LoopIteration: an opener without a closer leaves i where it
\* is.
LoopIterationStaysAtUnclosed ==
  /\ scanPc = "looping"
  /\ scanI < Len(lineText)
  /\ LET st == ScanStep(lineText, scanI)
         j == RunEnd(lineText, scanI)
         unclosed == /\ At(lineText, scanI) = ";"
                     /\ j - scanI \in {2, 3, 4}
                     /\ ~FindCloser(lineText, j, j - scanI).found
     IN /\ scanI' = IF unclosed THEN scanI ELSE st.i
        /\ results' = results \o st.push
  /\ UNCHANGED <<lineText, languageId, shortened, rescanned, scanPc>>
  /\ UNCHANGED <<demuxVars, promptVars, hostVars>>

\* wrappers.js:19-37: the comment checks; a comment line returns [], any
\* other line enters the loop with i = 0.
ReturnForComment ==
  /\ scanPc = "input"
  /\ IsCommentLine(lineText, languageId)
  /\ results' = <<>>
  /\ scanPc' = "scanned"
  /\ UNCHANGED <<lineText, languageId, shortened, rescanned, scanI>>
  /\ UNCHANGED <<demuxVars, promptVars, hostVars>>

EnterLoop ==
  /\ scanPc = "input"
  /\ ~IsCommentLine(lineText, languageId)
  /\ results' = <<>>
  /\ scanI' = 0
  /\ scanPc' = "looping"
  /\ UNCHANGED <<lineText, languageId, shortened, rescanned>>
  /\ UNCHANGED <<demuxVars, promptVars, hostVars>>

\* wrappers.js:39-104: one iteration of the outer loop.
LoopIteration ==
  /\ scanPc = "looping"
  /\ scanI < Len(lineText)
  /\ LET st == ScanStep(lineText, scanI)
     IN /\ scanI' = st.i
        /\ results' = results \o st.push
  /\ UNCHANGED <<lineText, languageId, shortened, rescanned, scanPc>>
  /\ UNCHANGED <<demuxVars, promptVars, hostVars>>

\* wrappers.js:39 and 106: the loop condition fails and results is
\* returned.
LoopExit ==
  /\ scanPc = "looping"
  /\ scanI >= Len(lineText)
  /\ scanPc' = "scanned"
  /\ UNCHANGED <<lineText, languageId, results, shortened, rescanned, scanI>>
  /\ UNCHANGED <<demuxVars, promptVars, hostVars>>

\* The lines of the loop harness, with and without a '%' in front.
LoopInputs ==
  {p \o b : p \in {<<>>, <<"%">>}, b \in StringsUpTo(BodyAlphabet, MaxLoopLen)}

LoopInit ==
  /\ DemuxIdle
  /\ PromptIdle
  /\ HostIdle
  /\ lineText \in LoopInputs
  /\ languageId \in LanguageIds
  /\ results = <<>>
  /\ shortened = <<>>
  /\ rescanned = <<>>
  /\ scanPc = "input"
  /\ scanI = 0

LoopNext == ReturnForComment \/ EnterLoop \/ LoopIteration \/ LoopExit

\* The function runs on: a call that can take a step takes one.
SpecLoop == LoopInit /\ [][LoopNext]_vars /\ WF_vars(LoopNext)

---------------------------------------------------------------------------
(* llmClient.js: the response handling of generateLatexForBatch            *)

\* result.split(/\r?\n/): the pieces of s between line breaks, a line break
\* being "\n" or "\r\n".
LineFeeds(s) == {p \in 1..Len(s) : s[p] = "\n"}

\* A piece that ends at a line feed, without the "\r" before the line feed.
WithoutCarriageReturn(piece) ==
  IF Len(piece) > 0 /\ piece[Len(piece)] = "\r"
    THEN SubSeq(piece, 1, Len(piece) - 1)
    ELSE piece

RECURSIVE SplitLines(_)
SplitLines(s) ==
  IF LineFeeds(s) = {}
    THEN <<s>>
    ELSE LET p == CHOOSE p \in LineFeeds(s) : \A q \in LineFeeds(s) : p <= q
         IN <<WithoutCarriageReturn(SubSeq(s, 1, p - 1))>>
              \o SplitLines(SubSeq(s, p + 1, Len(s)))

\* .map((l) => l.trim())
RECURSIVE TrimEach(_)
TrimEach(ls) ==
  IF ls = <<>> THEN <<>> ELSE <<Trim(Head(ls))>> \o TrimEach(Tail(ls))

\* .filter((l) => l.length > 0)
RECURSIVE DropEmpty(_)
DropEmpty(ls) ==
  IF ls = <<>> THEN <<>>
  ELSE IF Len(Head(ls)) > 0
    THEN <<Head(ls)>> \o DropEmpty(Tail(ls))
    ELSE DropEmpty(Tail(ls))

\* lines[i] || '' for i = 0 .. n-1
TakeOrEmpty(lines, n) ==
  [i \in 1..n |-> IF i <= Len(lines) THEN lines[i] ELSE <<>>]

\* Mutant of ResponseLines: blank lines are kept.
ResponseLinesKeepBlank(result) == TrimEach(SplitLines(result))

\* Mutant of ResponseLines: the lines are not trimmed.
ResponseLinesNoTrim(result) == DropEmpty(SplitLines(result))

\* part_000:723-726: the non-blank, trimmed lines of the response.
ResponseLines(result) == DropEmpty(TrimEach(SplitLines(result)))

\* part_000:721-732: the outputs of a batch call whose response text is
\* result, for n descriptions.
BatchOutputs(result, n) == TakeOrEmpty(ResponseLines(result), n)

\* part_001:83-94: what callChatCompletionWithProvider returns for a
\* response whose text content is c (a non-empty string).
ProviderResult(c) == Trim(c)

LlmSettings ==
  [apiKey : BOOLEAN, endpoint : BOOLEAN, model : BOOLEAN,
   provider : {"openai", "anthropic", "other"}]

\* part_001:30-42: the two configuration checks.
ConfigError(llm) == ~llm.apiKey \/ ~llm.endpoint \/ ~llm.model

\* part_001:45-48, 98 and 155-159: no branch for the provider.
UnsupportedProvider(llm) ==
  llm.provider \notin {"openai", "gemini", "anthropic"}

\* The call throws before it reaches fetch.
ThrowsBeforeFetch(llm) == ConfigError(llm) \/ UnsupportedProvider(llm)

\* part_001:22-160: what one call of callChatCompletionWithProvider does
\* besides returning or throwing, in order: "notify" is a
\* showErrorMessage, "fetch" the request sent to the endpoint.
ProviderSteps(llm) ==
  IF ThrowsBeforeFetch(llm) THEN <<"notify">> ELSE <<"fetch">>

---------------------------------------------------------------------------
(* The batch response harness: generateLatexForBatch is called with some   *)
(* descriptions and the provider answers with some text.                    *)

ContentAlphabet == {"x", "y", " ", "\n", "\r"}

DemuxInit ==
  /\ ScanIdle
  /\ PromptIdle
  /\ HostIdle
  /\ content \in StringsUpTo(ContentAlphabet, MaxContentLen) \ {<<>>}
  /\ \E n \in 1..MaxDescriptions : descriptions = [i \in 1..n |-> <<"d">>]
  /\ outputs = <<>>
  /\ demuxPc = "called"

\* part_000:721-732: the provider call returns and the response is split.
BatchReturn ==
  /\ demuxPc = "called"
  /\ outputs' = BatchOutputs(ProviderResult(content), Len(descriptions))
  /\ demuxPc' = "returned"
  /\ UNCHANGED <<content, descriptions>>
  /\ UNCHANGED <<scanVars, promptVars, hostVars>>

DemuxNext == BatchReturn

SpecDemux == DemuxInit /\ [][DemuxNext]_vars

---------------------------------------------------------------------------
(* llmClient.js: the system prompt of the generate functions.  A prompt is *)
(* a sequence whose members are its line breaks and blanks, the letters    *)
(* of the extra instructions, and one member for each fixed phrase.        *)

\* part_000:515-540: getExtraInstructionsSources.
settingExtraOf(extra) ==
  IF extra.kind = "string" THEN Trim(extra.text) ELSE <<>>

fileExtraOf(file) ==
  IF file.kind = "file" THEN Trim(file.text) ELSE <<>>

\* part_000:579-589, 653-665, 755-766: the rules of each function, trimmed.
BasePrompt(kind) ==
  IF kind = "single" THEN <<"Rules of generateLatexFromText">>
  ELSE IF kind = "batch" THEN <<"Rules of generateLatexForBatch">>
  ELSE <<"Rules of generateAnythingFromInstruction">>

AdditionalHeader == <<"\n", "\n", "Additional instructions follow.", "\n">>

HighPriorityBlock(fileExtra) ==
  <<"\n", "HIGH PRIORITY from project settings:", "\n">>
    \o fileExtra \o <<"\n">>

LowerPriorityBlock(settingExtra) ==
  <<"\n", "LOWER PRIORITY from user settings:", "\n">>
    \o settingExtra \o <<"\n">>

\* Mutant of AttachExtraInstructions: the block of the user settings is
\* written before the block of the project file.
AttachExtraInstructionsUserFirst(prompt, fileExtra, settingExtra) ==
  IF fileExtra # <<>> \/ settingExtra # <<>>
    THEN TrimEnd(prompt \o AdditionalHeader
                   \o (IF settingExtra # <<>>
                         THEN LowerPriorityBlock(settingExtra) ELSE <<>>)
                   \o (IF fileExtra # <<>>
                         THEN HighPriorityBlock(fileExtra) ELSE <<>>))
    ELSE prompt

\* part_000:591-603 (and the same lines at 666-678 and 768-780).
AttachExtraInstructions(prompt, fileExtra, settingExtra) ==
  IF fileExtra # <<>> \/ settingExtra # <<>>
    THEN TrimEnd(prompt \o AdditionalHeader
                   \o (IF fileExtra # <<>>
                         THEN HighPriorityBlock(fileExtra) ELSE <<>>)
                   \o (IF settingExtra # <<>>
                         THEN LowerPriorityBlock(settingExtra) ELSE <<>>))
    ELSE prompt

\* The system prompt of generateLatexFromText, generateLatexForBatch or
\* generateAnythingFromInstruction.
SystemPromptOf(kind, file, extra) ==
  AttachExtraInstructions(BasePrompt(kind), fileExtraOf(file),
                          settingExtraOf(extra))

\* The texts of the workspace file and of the setting.
FileTexts == StringsUpTo({"p", " ", "\n"}, MaxExtraLen)

SettingTexts == StringsUpTo({"u", " ", "\n"}, MaxExtraLen)

PromptInit ==
  /\ ScanIdle
  /\ DemuxIdle
  /\ HostIdle
  /\ promptKind \in {"single", "batch", "anything"}
  /\ promptFile \in {NoPromptFile} \cup {PromptFileWith(x) : x \in FileTexts}
  /\ promptExtra \in {PromptExtraOther}
                       \cup {PromptExtraString(x) : x \in SettingTexts}
  /\ systemPrompt = <<>>
  /\ promptPc = "called"

\* A generate function builds its system prompt.
BuildPrompt ==
  /\ promptPc = "called"
  /\ systemPrompt' = SystemPromptOf(promptKind, promptFile, promptExtra)
  /\ promptPc' = "built"
  /\ UNCHANGED <<promptKind, promptFile, promptExtra>>
  /\ UNCHANGED <<scanVars, demuxVars, hostVars>>

PromptNext == BuildPrompt

SpecPrompt == PromptInit /\ [][PromptNext]_vars

---------------------------------------------------------------------------
(* context.js: getContextBeforeLine                                        *)

\* config.get('context.lines', 50): the default of the setting.
DefaultContextLines == 50

\* The lazy-latex.context.lines setting is null, or a number.
ContextLinesNull == [kind |-> "null", value |-> 0]

ContextLinesNumber(c) == [kind |-> "number", value |-> c]

\* context.js:17: config.get(key, default) gives the default for a
\* setting that is not set.
ConfigGet(setting, default) ==
  IF setting.kind = "unset" THEN ContextLinesNumber(default) ELSE setting

Max(a, b) == IF a >= b THEN a ELSE b

\* Array.prototype.join('\n')
RECURSIVE JoinLines(_)
JoinLines(lines) ==
  IF lines = <<>> THEN <<>>
  ELSE IF Len(lines) = 1 THEN lines[1]
  ELSE lines[1] \o <<"\n">> \o JoinLines(Tail(lines))

\* Mutant of getContextBeforeLine: the window ends on the line itself.
getContextThroughLine(document, lineNumber, setting) ==
  LET contextLines == ConfigGet(setting, DefaultContextLines) IN
  IF contextLines.kind = "null" \/ contextLines.value <= 0
    THEN <<>>
    ELSE JoinLines(SubSeq(document,
                          Max(0, lineNumber - contextLines.value) + 1,
                          lineNumber + 1))

\* context.js:15-35; document is the sequence of the document's lines and
\* setting the lazy-latex.context.lines setting.
getContextBeforeLine(document, lineNumber, setting) ==
  LET contextLines == ConfigGet(setting, DefaultContextLines) IN
  IF contextLines.kind = "null" \/ contextLines.value <= 0
    THEN <<>>
    ELSE LET startLine == Max(0, lineNumber - contextLines.value)
             endLine == lineNumber - 1
         IN IF endLine < startLine
              THEN <<>>
              ELSE JoinLines(SubSeq(document, startLine + 1, endLine + 1))

---------------------------------------------------------------------------
(* extension.js: the pure parts of processLineForWrappers                  *)

InlineStyles == {"dollar", "paren"}

DisplayStyles == {"brackets", "dollars"}

\* extension.js:19-46
getOutputDelimiters(lang, inlineStyle, displayStyle) ==
  IF lang = "markdown"
    THEN [inline |-> [open |-> <<"$">>, close |-> <<"$">>],
          display |-> [open |-> <<"$", "$">>, close |-> <<"$", "$">>]]
    ELSE [inline |->
            IF inlineStyle = "paren"
              THEN [open |-> <<"\\", "(">>, close |-> <<"\\", ")">>]
              ELSE [open |-> <<"$">>, close |-> <<"$">>],
          display |->
            IF displayStyle = "dollars"
              THEN [open |-> <<"$", "$">>, close |-> <<"$", "$">>]
              ELSE [open |-> <<"\\", "[">>, close |-> <<"\\", "]">>]]

IsMathWrapper(w) == w.type = "inline" \/ w.type = "display"

IsAnythingWrapper(w) == w.type = "anything"

\* extension.js:83-85
MathWrappers(wrappers) == SelectSeq(wrappers, IsMathWrapper)

\* extension.js:86
AnythingWrappers(wrappers) == SelectSeq(wrappers, IsAnythingWrapper)

\* extension.js:92
MathDescriptions(mathWrappers) ==
  [idx \in 1..Len(mathWrappers) |-> Trim(mathWrappers[idx].inner)]

\* extension.js:109: (latexList[idx] || '').trim(), idx 0-based.
LatexAt(latexList, idx) ==
  IF idx + 1 <= Len(latexList) THEN Trim(latexList[idx + 1]) ELSE <<>>

\* Mutant of WrappedText: the inline branch is missing, every wrapper is
\* written as a display block.
WrappedTextAlwaysDisplay(w, latex, originalLineText, outputDelims) ==
  LET displayBlock ==
        outputDelims.display.open \o <<"\n">> \o latex \o <<"\n">>
          \o outputDelims.display.close \o <<"\n">>
      prefix == Slice(originalLineText, 0, w.start)
  IN IF Len(Trim(prefix)) > 0 THEN <<"\n">> \o displayBlock ELSE displayBlock

\* Mutant of WrappedText: no line break is put before a display block.
WrappedTextNeverBreaks(w, latex, originalLineText, outputDelims) ==
  IF w.type = "inline"
    THEN outputDelims.inline.open \o latex \o outputDelims.inline.close
    ELSE outputDelims.display.open \o <<"\n">> \o latex \o <<"\n">>
           \o outputDelims.display.close \o <<"\n">>

\* extension.js:112-125: the text that replaces math wrapper w.
WrappedText(w, latex, originalLineText, outputDelims) ==
  IF w.type = "inline"
    THEN outputDelims.inline.open \o latex \o outputDelims.inline.close
    ELSE LET displayBlock ==
               outputDelims.display.open \o <<"\n">> \o latex \o <<"\n">>
                 \o outputDelims.display.close \o <<"\n">>
             prefix == Slice(originalLineText, 0, w.start)
         IN IF Len(Trim(prefix)) > 0
              THEN <<"\n">> \o displayBlock
              ELSE displayBlock

\* Mutant of MathReplacementsFrom: an empty output is not skipped, the
\* wrapper is replaced by the bare delimiters.
RECURSIVE MathReplacementsFromKeepEmpty(_, _, _, _, _)
MathReplacementsFromKeepEmpty(ws, latexList, originalLineText, outputDelims, idx) ==
  IF idx >= Len(ws)
    THEN <<>>
    ELSE LET w == ws[idx + 1]
             latex == LatexAt(latexList, idx)
         IN <<[start |-> w.start, end |-> w.end,
               text |-> WrappedText(w, latex, originalLineText,
                                    outputDelims)]>>
            \o MathReplacementsFromKeepEmpty(ws, latexList, originalLineText,
                                             outputDelims, idx + 1)

\* extension.js:107-132: the loop over ws from index idx (0-based); the
\* entry of ws[idx] takes latexList[idx].
RECURSIVE MathReplacementsFrom(_, _, _, _, _)
MathReplacementsFrom(ws, latexList, originalLineText, outputDelims, idx) ==
  IF idx >= Len(ws)
    THEN <<>>
    ELSE LET w == ws[idx + 1]
             latex == LatexAt(latexList, idx)
             rest == MathReplacementsFrom(ws, latexList, originalLineText,
                                          outputDelims, idx + 1)
         IN IF Len(latex) = 0
              THEN rest
              ELSE <<[start |-> w.start, end |-> w.end,
                      text |-> WrappedText(w, latex, originalLineText,
                                           outputDelims)]>> \o rest

\* Mutant of MathReplacements: the loop runs over all the wrappers of the
\* line, so a ';;;;' wrapper between two math wrappers shifts the index.
MathReplacementsOverAllWrappers(wrappers, latexList, line, outputDelims) ==
  MathReplacementsFrom(wrappers, latexList, line, outputDelims, 0)

\* extension.js:83-85 and 107-132: the replacement entries of the math
\* wrappers of a line, given the outputs of the batch call.
MathReplacements(wrappers, latexList, originalLineText, outputDelims) ==
  MathReplacementsFrom(MathWrappers(wrappers), latexList, originalLineText,
                       outputDelims, 0)

\* Mutant of InsertByStartDescending: the comparison is a.start - b.start.
RECURSIVE InsertByStartAscending(_, _)
InsertByStartAscending(r, sorted) ==
  IF sorted = <<>> THEN <<r>>
  ELSE IF Head(sorted).start <= r.start
    THEN <<Head(sorted)>> \o InsertByStartAscending(r, Tail(sorted))
    ELSE <<r>> \o sorted

\* Array.prototype.sort with (a, b) => b.start - a.start: r is put before
\* the first entry of the sorted array whose start is smaller (the sort is
\* stable).
RECURSIVE InsertByStartDescending(_, _)
InsertByStartDescending(r, sorted) ==
  IF sorted = <<>> THEN <<r>>
  ELSE IF Head(sorted).start >= r.start
    THEN <<Head(sorted)>> \o InsertByStartDescending(r, Tail(sorted))
    ELSE <<r>> \o sorted

RECURSIVE SortFrom(_, _)
SortFrom(rs, acc) ==
  IF rs = <<>> THEN acc
  ELSE SortFrom(Tail(rs), InsertByStartDescending(Head(rs), acc))

\* Mutant of SortByStartDescending: the entries stay in the order they
\* were collected in.
SortNothing(replacements) == replacements

\* extension.js:193
SortByStartDescending(replacements) == SortFrom(replacements, <<>>)

Min(a, b) == IF a <= b THEN a ELSE b

\* extension.js:195-196: one editBuilder.replace on the text of the line;
\* a range that reaches past the end of the line is cut to the line.
ReplaceRange(text, r) ==
  Slice(text, 0, Min(r.start, Len(text))) \o r.text
    \o Slice(text, Min(r.end, Len(text)), Len(text))

\* Mutant of ApplyReplacements: the loop ends after its first replacement.
ApplyFirstReplacementOnly(text, sorted) ==
  IF sorted = <<>> THEN text ELSE ReplaceRange(text, Head(sorted))

\* extension.js:194-197: the replacements applied one after the other, in
\* the order of the sorted array.
RECURSIVE ApplyReplacements(_, _)
ApplyReplacements(text, sorted) ==
  IF sorted = <<>> THEN text
  ELSE ApplyReplacements(ReplaceRange(text, Head(sorted)), Tail(sorted))

LazyLatexInput ==
  <<"[", "l", "a", "z", "y", "-", "l", "a", "t", "e", "x", " ",
    "i", "n", "p", "u", "t", "]">>

\* Mutant of CommentText: the '%' form is used for every document.
CommentTextLatexOnly(lang, originalLineText) ==
  <<"%", " ">> \o LazyLatexInput \o <<" ">> \o originalLineText

\* extension.js:180-187
CommentText(lang, originalLineText) ==
  IF lang = "markdown"
    THEN <<"<", "!", "-", "-", " ">> \o LazyLatexInput \o <<" ">>
           \o originalLineText \o <<" ", "-", "-", ">">>
    ELSE <<"%", " ">> \o LazyLatexInput \o <<" ">> \o originalLineText

\* extension.js:175-179
InsertsComment(keepOriginalComment, originalLineText) ==
  keepOriginalComment /\ Len(Trim(originalLineText)) > 0

---------------------------------------------------------------------------
(* extension.js: processLineForWrappers and the document-change handler.   *)
(*                                                                         *)
(* An invocation of processLineForWrappers is a record of tasks.  Its      *)
(* code runs in turns of the event loop, from one await to the next:       *)
(*   "batch"     awaiting generateLatexForBatch          (line 96)         *)
(*   "anything"  awaiting generateAnythingFromInstruction (line 143)       *)
(*   "editing"   awaiting editor.edit, edit not yet applied (line 173)     *)
(*   "edited"    awaiting editor.edit, edit applied by the host            *)
(*   "done"      returned or threw                                         *)
(* An invocation of the lazy-latex.mathToLatex command is a record of      *)
(* tasks of kind "manual":                                                 *)
(*   "manual"         awaiting generateLatexFromText     (line 242)        *)
(*   "manualEditing"  awaiting editor.edit               (line 261)        *)
(*   "done"           returned                                             *)
(* The host applies an edit and raises its change event before it          *)
(* resolves the promise of editor.edit.                                     *)

\* One entry of the history of an invocation: e is "call" (a generate*
\* function is called), "fetch", "notify", "return", "throw" or "edit"
\* (editor.edit is called); kind and idx name the unit of work, the batch
\* or the idx-th ';;;;' wrapper; text is what a call was given (the
\* descriptions, the instruction) or what it returned.
Event(e, kind, idx, text) ==
  [e |-> e, kind |-> kind, idx |-> idx, text |-> text]

\* What the history gains when the call for a unit settles: the steps of
\* the provider call, then its return or throw.
SettleEvents(kind, idx, threw, text) ==
  [i \in 1..Len(ProviderSteps(config.llm)) |->
     Event(ProviderSteps(config.llm)[i], kind, idx, <<>>)]
  \o <<Event(IF threw THEN "throw" ELSE "return", kind, idx, text)>>

\* document.lineAt(lineNumber).text inside try/catch (extension.js:75-80).
LineTextOrEmpty(doc_, lineNumber) ==
  IF lineNumber < Len(doc_) THEN doc_[lineNumber + 1] ELSE <<>>

\* Mutant of ContinueAnything: a ';;;;' wrapper with a blank instruction
\* is not skipped.
ContinueAnythingCallsBlank(task, idx) ==
  LET anythingWrappers == AnythingWrappers(task.wrappers) IN
  IF idx < Len(anythingWrappers)
    THEN [task EXCEPT
            !.pc = "anything", !.anyIdx = idx,
            !.log = Append(@, Event("call", "anything", idx,
                                   Trim(anythingWrappers[idx + 1].inner)))]
    ELSE IF Len(task.replacements) = 0
           THEN [task EXCEPT !.pc = "done", !.anyIdx = idx]
           ELSE [task EXCEPT
                   !.pc = "editing", !.anyIdx = idx,
                   !.replacements = SortByStartDescending(@),
                   !.log = Append(@, Event("edit", "line", 0, <<>>))]

\* extension.js:136-169: the loop over the ';;;;' wrappers from index idx
\* up to the next await, and, past the loop, the return of line 169 or the
\* call of editor.edit whose callback sorts the replacements (line 193).
RECURSIVE ContinueAnything(_, _)
ContinueAnything(task, idx) ==
  LET anythingWrappers == AnythingWrappers(task.wrappers) IN
  IF idx < Len(anythingWrappers)
    THEN IF Len(Trim(anythingWrappers[idx + 1].inner)) = 0
           THEN ContinueAnything(task, idx + 1)
           ELSE [task EXCEPT
                   !.pc = "anything", !.anyIdx = idx,
                   !.log = Append(@, Event("call", "anything", idx,
                                          Trim(anythingWrappers[idx + 1].inner)))]
    ELSE IF Len(task.replacements) = 0
           THEN [task EXCEPT !.pc = "done", !.anyIdx = idx]
           ELSE [task EXCEPT
                   !.pc = "editing", !.anyIdx = idx,
                   !.replacements = SortByStartDescending(@),
                   !.log = Append(@, Event("edit", "line", 0, <<>>))]

\* extension.js:56-96: processLineForWrappers up to its first await.  The
\* invocation is appended to tasks_; nothing is appended when one of the
\* guards of lines 57-60 returns.
processLineForWrappers(tasks_, doc_, document, lineNumber, wrappers) ==
  IF activeEditor = "none" \/ activeEditor # document \/ Len(wrappers) = 0
    THEN tasks_
    ELSE LET task == [kind |-> "line",
                      pc |-> "batch",
                      selection |-> [start |-> 0, end |-> 0],
                      lineNumber |-> lineNumber,
                      wrappers |-> wrappers,
                      previousContext |->
                        getContextBeforeLine(doc_, lineNumber,
                                             config.contextLines),
                      originalLineText |-> LineTextOrEmpty(doc_, lineNumber),
                      latexList |-> <<>>,
                      replacements |-> <<>>,
                      anyIdx |-> 0,
                      statusShown |-> TRUE,
                      before |-> <<>>,
                      after |-> <<>>,
                      outcome |-> "none",
                      log |-> <<>>]
         IN Append(tasks_,
                   IF Len(MathWrappers(wrappers)) > 0
                     THEN [task EXCEPT
                             !.log = <<Event("call", "batch", 0,
                                             MathDescriptions(
                                               MathWrappers(wrappers)))>>]
                     ELSE ContinueAnything(task, 0))

\* extension.js:289-317: the loop over event.contentChanges.  A change is
\* [hasNewline, startLine]: whether its text includes a line break, and
\* the line its range starts on.
RECURSIVE HandleChanges(_, _, _)
HandleChanges(tasks_, doc_, changes) ==
  IF changes = <<>>
    THEN tasks_
    ELSE LET change == Head(changes)
             wrappers ==
               findWrappersInLine(doc_[change.startLine + 1], docLanguageId)
             next ==
               IF change.hasNewline /\ change.startLine < Len(doc_)
                    /\ Len(wrappers) > 0
                 THEN processLineForWrappers(tasks_, doc_, "doc",
                                             change.startLine, wrappers)
                 ELSE tasks_
         IN HandleChanges(next, doc_, Tail(changes))

\* Mutant of PassesGate: the language of the document is not looked at.
PassesGateAnyLanguage ==
  /\ activeEditor = "doc"
  /\ ~isApplyingLazyLatexEdit
  /\ config.autoReplace

\* extension.js:273-287: the checks the handler makes before it looks at
\* the changes of an event of the document.
PassesGate ==
  /\ activeEditor = "doc"
  /\ ~isApplyingLazyLatexEdit
  /\ docLanguageId \in {"latex", "markdown"}
  /\ config.autoReplace

\* Mutant of onDidChangeTextDocument: the handler ignores the flag.
onDidChangeTextDocumentNoFlag(tasks_, doc_, changes) ==
  IF /\ activeEditor = "doc"
     /\ docLanguageId \in {"latex", "markdown"}
     /\ config.autoReplace
    THEN HandleChanges(tasks_, doc_, changes)
    ELSE tasks_

\* extension.js:272-318: the handler for a change event of the document,
\* whose lines are doc_ once the change is made.
onDidChangeTextDocument(tasks_, doc_, changes) ==
  IF PassesGate THEN HandleChanges(tasks_, doc_, changes) ELSE tasks_

\* The handler reaches findWrappersInLine (line 294) for some change.
ScansSomeLine(doc_, changes) ==
  /\ PassesGate
  /\ \E i \in 1..Len(changes) :
       changes[i].hasNewline /\ changes[i].startLine < Len(doc_)

HasNewline(text) == \E i \in 1..Len(text) : text[i] = "\n"

\* The flag after a turn that leaves the invocation in state task
\* (extension.js:171).
FlagAfter(task) ==
  IF task.pc = "editing" THEN TRUE ELSE isApplyingLazyLatexEdit

OutputDelims ==
  getOutputDelimiters(docLanguageId, config.inlineStyle, config.displayStyle)

\* The user ends line n with Enter: an empty line follows it, and the
\* change event (text "\n", range starting on line n) reaches the handler.
UserEnter(n) ==
  /\ n \in 0..(Len(doc) - 1)
  /\ doc' = SubSeq(doc, 1, n + 1) \o <<<<>>>> \o SubSeq(doc, n + 2, Len(doc))
  /\ tasks' = onDidChangeTextDocument(
                tasks, doc', <<[hasNewline |-> TRUE, startLine |-> n]>>)
  /\ Len(tasks') <= MaxTasks
  /\ userEvents' = userEvents + 1
  /\ UNCHANGED <<activeEditor, docLanguageId, config,
                 isApplyingLazyLatexEdit, ownEditScanned>>
  /\ UNCHANGED <<scanVars, demuxVars, promptVars>>

\* The user types a character at the end of line n: the change event
\* (text "x", no line break, range starting on line n) reaches the handler.
UserType(n) ==
  /\ n \in 0..(Len(doc) - 1)
  /\ doc' = [doc EXCEPT ![n + 1] = Append(@, "x")]
  /\ tasks' = onDidChangeTextDocument(
                tasks, doc', <<[hasNewline |-> FALSE, startLine |-> n]>>)
  /\ Len(tasks') <= MaxTasks
  /\ userEvents' = userEvents + 1
  /\ UNCHANGED <<activeEditor, docLanguageId, config,
                 isApplyingLazyLatexEdit, ownEditScanned>>
  /\ UNCHANGED <<scanVars, demuxVars, promptVars>>

\* extension.js:96-169 after the batch call settled with latexList
\* (line 104: [] when it threw).
AfterBatch(t, latexList, threw) ==
  LET task == tasks[t]
      next == ContinueAnything(
                [task EXCEPT
                   !.log = @ \o SettleEvents("batch", 0, threw, <<>>),
                   !.latexList = latexList,
                   !.replacements =
                     MathReplacements(task.wrappers, latexList,
                                      task.originalLineText, OutputDelims)],
                0)
  IN /\ tasks' = [tasks EXCEPT ![t] = next]
     /\ isApplyingLazyLatexEdit' = FlagAfter(next)
     /\ UNCHANGED <<doc, activeEditor, docLanguageId, config, userEvents,
                    ownEditScanned>>
     /\ UNCHANGED <<scanVars, demuxVars, promptVars>>

\* generateLatexForBatch returns: the provider answered with content c.
BatchResolve(t, c) ==
  /\ t \in 1..Len(tasks)
  /\ tasks[t].pc = "batch"
  /\ ~ThrowsBeforeFetch(config.llm)
  /\ AfterBatch(t,
                BatchOutputs(
                  ProviderResult(c),
                  Len(MathDescriptions(MathWrappers(tasks[t].wrappers)))),
                FALSE)

\* Mutant of BatchReject: the batch call is not inside try/catch, the
\* invocation ends when it throws.
BatchRejectEndsInvocation(t) ==
  /\ t \in 1..Len(tasks)
  /\ tasks[t].pc = "batch"
  /\ tasks' = [tasks EXCEPT
                 ![t].pc = "done",
                 ![t].log = @ \o SettleEvents("batch", 0, TRUE, <<>>)]
  /\ UNCHANGED <<doc, activeEditor, docLanguageId, config, userEvents,
                 isApplyingLazyLatexEdit, ownEditScanned>>
  /\ UNCHANGED <<scanVars, demuxVars, promptVars>>

\* generateLatexForBatch throws (extension.js:101-105).
BatchReject(t) ==
  /\ t \in 1..Len(tasks)
  /\ tasks[t].pc = "batch"
  /\ AfterBatch(t, <<>>, TRUE)

\* Mutant of AfterAnything: a ';;;;' wrapper whose call threw is tried
\* again.
AfterAnythingRetries(t, pushed, threw, generated) ==
  LET task == tasks[t]
      next == ContinueAnything(
                [task EXCEPT
                   !.log = @ \o SettleEvents("anything", task.anyIdx, threw,
                                             generated),
                   !.replacements = @ \o pushed],
                IF threw THEN task.anyIdx ELSE task.anyIdx + 1)
  IN /\ tasks' = [tasks EXCEPT ![t] = next]
     /\ isApplyingLazyLatexEdit' = FlagAfter(next)
     /\ UNCHANGED <<doc, activeEditor, docLanguageId, config, userEvents,
                    ownEditScanned>>
     /\ UNCHANGED <<scanVars, demuxVars, promptVars>>

\* Mutant of AfterAnything: the entry is put at the front of the array.
AfterAnythingUnshifts(t, pushed, threw, generated) ==
  LET task == tasks[t]
      next == ContinueAnything(
                [task EXCEPT
                   !.log = @ \o SettleEvents("anything", task.anyIdx, threw,
                                             generated),
                   !.replacements = pushed \o @],
                task.anyIdx + 1)
  IN /\ tasks' = [tasks EXCEPT ![t] = next]
     /\ isApplyingLazyLatexEdit' = FlagAfter(next)
     /\ UNCHANGED <<doc, activeEditor, docLanguageId, config, userEvents,
                    ownEditScanned>>
     /\ UNCHANGED <<scanVars, demuxVars, promptVars>>

\* extension.js:143-169 after the call for the ';;;;' wrapper at anyIdx
\* settled; pushed holds the entry of lines 161-165, if any.
AfterAnything(t, pushed, threw, generated) ==
  LET task == tasks[t]
      next == ContinueAnything(
                [task EXCEPT
                   !.log = @ \o SettleEvents("anything", task.anyIdx, threw,
                                             generated),
                   !.replacements = @ \o pushed],
                task.anyIdx + 1)
  IN /\ tasks' = [tasks EXCEPT ![t] = next]
     /\ isApplyingLazyLatexEdit' = FlagAfter(next)
     /\ UNCHANGED <<doc, activeEditor, docLanguageId, config, userEvents,
                    ownEditScanned>>
     /\ UNCHANGED <<scanVars, demuxVars, promptVars>>

\* generateAnythingFromInstruction returns: the provider answered with c.
AnythingResolve(t, c) ==
  /\ t \in 1..Len(tasks)
  /\ tasks[t].pc = "anything"
  /\ ~ThrowsBeforeFetch(config.llm)
  /\ LET w == AnythingWrappers(tasks[t].wrappers)[tasks[t].anyIdx + 1]
         generated == ProviderResult(c)
         text == Trim(generated)
     IN AfterAnything(t,
          IF Len(text) = 0
            THEN <<>>
            ELSE <<[start |-> w.start, end |-> w.end, text |-> text]>>,
          FALSE, generated)

\* generateAnythingFromInstruction throws (extension.js:149-156).
AnythingReject(t) ==
  /\ t \in 1..Len(tasks)
  /\ tasks[t].pc = "anything"
  /\ AfterAnything(t, <<>>, TRUE, <<>>)

\* extension.js:173-198: the changes of the edit of invocation task, as
\* the change event lists them.
EditChanges(task) ==
  (IF InsertsComment(config.keepOriginalComment, task.originalLineText)
     THEN <<[hasNewline |-> TRUE, startLine |-> task.lineNumber]>>
     ELSE <<>>)
  \o [i \in 1..Len(task.replacements) |->
        [hasNewline |-> HasNewline(task.replacements[i].text),
         startLine |-> task.lineNumber]]

\* extension.js:173-198: the host applies the edit of invocation t to the
\* document as it is now, and the change event reaches the handler.
EditApply(t) ==
  /\ t \in 1..Len(tasks)
  /\ tasks[t].pc = "editing"
  /\ tasks[t].lineNumber < Len(doc)
  /\ LET task == tasks[t]
         n == task.lineNumber
         before == doc[n + 1]
         after == ApplyReplacements(before, task.replacements)
         inserted ==
           IF InsertsComment(config.keepOriginalComment,
                             task.originalLineText)
             THEN CommentText(docLanguageId, task.originalLineText)
                    \o <<"\n">>
             ELSE <<>>
     IN /\ doc' = SubSeq(doc, 1, n) \o SplitLines(inserted \o after)
                    \o SubSeq(doc, n + 2, Len(doc))
        /\ tasks' = onDidChangeTextDocument(
                      [tasks EXCEPT ![t].pc = "edited",
                                    ![t].before = before,
                                    ![t].after = after],
                      doc', EditChanges(task))
        /\ ownEditScanned' =
             (ownEditScanned \/ ScansSomeLine(doc', EditChanges(task)))
  /\ Len(tasks') <= MaxTasks
  /\ UNCHANGED <<activeEditor, docLanguageId, config,
                 isApplyingLazyLatexEdit, userEvents>>
  /\ UNCHANGED <<scanVars, demuxVars, promptVars>>

\* Mutant of Finally: the flag is cleared after the await, not in a
\* finally block, so it stays set when editor.edit rejects.
FinallyClearsOnlyOnSuccess(t, outcome) ==
  /\ tasks' = [tasks EXCEPT ![t].pc = "done",
                            ![t].statusShown = FALSE,
                            ![t].outcome = outcome]
  /\ isApplyingLazyLatexEdit' =
       IF outcome = "rejected" THEN isApplyingLazyLatexEdit ELSE FALSE
  /\ UNCHANGED <<doc, activeEditor, docLanguageId, config, userEvents,
                 ownEditScanned>>
  /\ UNCHANGED <<scanVars, demuxVars, promptVars>>

\* extension.js:199-202: the finally block, and the end of the invocation.
Finally(t, outcome) ==
  /\ tasks' = [tasks EXCEPT ![t].pc = "done",
                            ![t].statusShown = FALSE,
                            ![t].outcome = outcome]
  /\ isApplyingLazyLatexEdit' = FALSE
  /\ UNCHANGED <<doc, activeEditor, docLanguageId, config, userEvents,
                 ownEditScanned>>
  /\ UNCHANGED <<scanVars, demuxVars, promptVars>>

\* editor.edit resolves: true once the edit is applied, false when the
\* host did not apply it.
EditResolve(t) ==
  /\ t \in 1..Len(tasks)
  /\ tasks[t].pc \in {"editing", "edited"}
  /\ Finally(t, IF tasks[t].pc = "edited" THEN "applied" ELSE "notApplied")

\* editor.edit rejects or throws.
EditReject(t) ==
  /\ t \in 1..Len(tasks)
  /\ tasks[t].pc = "editing"
  /\ Finally(t, "rejected")

---------------------------------------------------------------------------
(* The extension with several lines being processed at once.               *)

DisplayLine == <<"x", " ", ";", ";", ";", "b", ";", ";", ";">>

MixedLine ==
  <<";", ";", "a", ";", ";", " ", ";", ";", ";", ";", "c", ";", ";", ";", ";">>

HostLines == {DisplayLine, MixedLine}

\* What the provider answers in this specification.
HostBatchContents == {<<"A">>}

HostAnythingContents == {<<"T", "\n", "U">>}

Init ==
  /\ ScanIdle
  /\ DemuxIdle
  /\ PromptIdle
  /\ doc \in {<<l1, DisplayLine>> : l1 \in HostLines}
  /\ activeEditor \in {"doc", "other", "none"}
  /\ docLanguageId \in {"latex", "markdown", "plaintext"}
  /\ config \in [autoReplace : BOOLEAN, keepOriginalComment : BOOLEAN,
                 inlineStyle : {"dollar"}, displayStyle : {"brackets"},
                 llm : {LlmOk}, contextLines : {ContextLinesUnset}]
  /\ isApplyingLazyLatexEdit = FALSE
  /\ tasks = <<>>
  /\ userEvents = 0
  /\ ownEditScanned = FALSE

Next ==
  \/ \E n \in 0..(Len(doc) - 1) : userEvents < MaxUserEvents /\ UserEnter(n)
  \/ \E t \in 1..Len(tasks), c \in HostBatchContents : BatchResolve(t, c)
  \/ \E t \in 1..Len(tasks) : BatchReject(t)
  \/ \E t \in 1..Len(tasks), c \in HostAnythingContents :
       AnythingResolve(t, c)
  \/ \E t \in 1..Len(tasks) : AnythingReject(t)
  \/ \E t \in 1..Len(tasks) : EditApply(t)
  \/ \E t \in 1..Len(tasks) : EditResolve(t)
  \/ \E t \in 1..Len(tasks) : EditReject(t)

Spec == Init /\ [][Next]_vars

---------------------------------------------------------------------------
(* The extension with change events of both kinds: the user ends a line    *)
(* with Enter, or types a character on the first line.                     *)

GateNext ==
  \/ \E n \in 0..(Len(doc) - 1) : userEvents < MaxUserEvents /\ UserEnter(n)
  \/ userEvents < MaxUserEvents /\ UserType(0)
  \/ \E t \in 1..Len(tasks), c \in HostBatchContents : BatchResolve(t, c)
  \/ \E t \in 1..Len(tasks) : BatchReject(t)
  \/ \E t \in 1..Len(tasks), c \in HostAnythingContents :
       AnythingResolve(t, c)
  \/ \E t \in 1..Len(tasks) : AnythingReject(t)
  \/ \E t \in 1..Len(tasks) : EditApply(t)
  \/ \E t \in 1..Len(tasks) : EditResolve(t)
  \/ \E t \in 1..Len(tasks) : EditReject(t)

SpecGate == Init /\ [][GateNext]_vars

---------------------------------------------------------------------------
(* The extension with one line being processed: the user ends the only     *)
(* line of a document with Enter, and the line goes through                *)
(* processLineForWrappers.                                                 *)

InlineSegment == <<";", ";", "a", ";", ";", " ">>

DisplaySegment == <<";", ";", ";", "b", ";", ";", ";", " ">>

AnythingSegment == <<";", ";", ";", ";", "c", ";", ";", ";", ";", " ">>

TextSegment == <<"x", " ">>

LineSegments == {InlineSegment, DisplaySegment, AnythingSegment, TextSegment}

\* The lines made of at most n segments.
RECURSIVE SegmentLines(_)
SegmentLines(n) ==
  IF n = 0
    THEN {<<>>}
    ELSE LET shorter == SegmentLines(n - 1)
         IN shorter \cup {l \o g : l \in shorter, g \in LineSegments}

\* 'The pdf is ;;normal(0, 1);;.'
PdfLine ==
  <<"T", "h", "e", " ", "p", "d", "f", " ", "i", "s", " ",
    ";", ";", "n", "o", "r", "m", "a", "l", "(", "0", ",", " ", "1", ")",
    ";", ";", ".">>

\* A ';;;;' wrapper with a blank instruction between an inline wrapper
\* and a ';;;;' wrapper with an instruction.
BlankAnythingLine ==
  InlineSegment \o <<";", ";", ";", ";", " ", ";", ";", ";", ";", " ">>
    \o AnythingSegment

\* A display wrapper with only blanks before it.
IndentedDisplayLine == <<" ", " ">> \o DisplaySegment

LineInputs ==
  SegmentLines(MaxSegments)
    \cup {TwoWrapperLine, PdfLine, BlankAnythingLine, IndentedDisplayLine}

\* What the provider answers to the batch call: one line, two lines, three
\* lines with a blank line among them, or blank text.
LineBatchContents ==
  {<<"A">>, <<"A", "\n", "B">>, <<" ", "A", "\n", "\n", "B", "\r", "\n", "C">>,
   <<" ">>}

\* What the provider answers to a ';;;;' call.
LineAnythingContents == {<<"T">>, <<"T", "\n", "U">>, <<" ">>}

LineInit ==
  /\ ScanIdle
  /\ DemuxIdle
  /\ PromptIdle
  /\ \E l \in LineInputs : doc = <<l>>
  /\ activeEditor = "doc"
  /\ docLanguageId \in {"latex", "markdown"}
  /\ config \in [autoReplace : {TRUE}, keepOriginalComment : BOOLEAN,
                 inlineStyle : InlineStyles, displayStyle : DisplayStyles,
                 llm : {LlmOk}, contextLines : {ContextLinesUnset}]
  /\ isApplyingLazyLatexEdit = FALSE
  /\ tasks = <<>>
  /\ userEvents = 0
  /\ ownEditScanned = FALSE

LineNext ==
  \/ userEvents = 0 /\ UserEnter(0)
  \/ \E t \in 1..Len(tasks), c \in LineBatchContents : BatchResolve(t, c)
  \/ \E t \in 1..Len(tasks) : BatchReject(t)
  \/ \E t \in 1..Len(tasks), c \in LineAnythingContents :
       AnythingResolve(t, c)
  \/ \E t \in 1..Len(tasks) : AnythingReject(t)
  \/ \E t \in 1..Len(tasks) : EditApply(t)
  \/ \E t \in 1..Len(tasks) : EditResolve(t)
  \/ \E t \in 1..Len(tasks) : EditReject(t)

SpecLine == LineInit /\ [][LineNext]_vars

---------------------------------------------------------------------------
(* Enter on one line of a document of several lines, under every value of *)
(* the lazy-latex.context.lines setting.                                   *)

ContextLineTexts == {InlineSegment, DisplaySegment, TextSegment}

\* The setting is not set, null, or a number from -1 to past the length
\* of the document.
ContextSettings ==
  {ContextLinesUnset, ContextLinesNull}
    \cup {ContextLinesNumber(c) : c \in (0 - 1)..(MaxDocLines + 1)}

ContextInit ==
  /\ ScanIdle
  /\ DemuxIdle
  /\ PromptIdle
  /\ doc \in UNION {[1..k -> ContextLineTexts] : k \in 1..MaxDocLines}
  /\ activeEditor = "doc"
  /\ docLanguageId = "latex"
  /\ config \in [autoReplace : {TRUE}, keepOriginalComment : {FALSE},
                 inlineStyle : {"dollar"}, displayStyle : {"brackets"},
                 llm : {LlmOk}, contextLines : ContextSettings]
  /\ isApplyingLazyLatexEdit = FALSE
  /\ tasks = <<>>
  /\ userEvents = 0
  /\ ownEditScanned = FALSE

ContextNext ==
  \/ \E n \in 0..(MaxDocLines - 1) : userEvents = 0 /\ UserEnter(n)
  \/ \E t \in 1..Len(tasks), c \in HostBatchContents : BatchResolve(t, c)
  \/ \E t \in 1..Len(tasks) : BatchReject(t)
  \/ \E t \in 1..Len(tasks) : EditApply(t)
  \/ \E t \in 1..Len(tasks) : EditResolve(t)
  \/ \E t \in 1..Len(tasks) : EditReject(t)

SpecContext == ContextInit /\ [][ContextNext]_vars

---------------------------------------------------------------------------
(* extension.js: the lazy-latex.mathToLatex command.                       *)

\* extension.js:216-242: the command up to its await, with the selection
\* sel of the active editor: [line, start, end], on one line of doc.
\* Nothing is started without an editor or with an empty selection.
ManualCommand(sel) ==
  /\ sel.line < Len(doc)
  /\ sel.start <= sel.end
  /\ sel.end <= Len(doc[sel.line + 1])
  /\ tasks' =
       IF activeEditor # "doc" \/ sel.start = sel.end
         THEN tasks
         ELSE Append(tasks,
                [kind |-> "manual",
                 pc |-> "manual",
                 selection |-> [start |-> sel.start, end |-> sel.end],
                 lineNumber |-> sel.line,
                 wrappers |-> <<>>,
                 previousContext |->
                   getContextBeforeLine(doc, sel.line, config.contextLines),
                 originalLineText |-> <<>>,
                 latexList |-> <<>>,
                 replacements |-> <<>>,
                 anyIdx |-> 0,
                 statusShown |-> TRUE,
                 before |-> <<>>,
                 after |-> <<>>,
                 outcome |-> "none",
                 log |-> <<Event("call", "manual", 0,
                                 Slice(doc[sel.line + 1], sel.start,
                                       sel.end))>>])
  /\ Len(tasks') <= MaxTasks
  /\ UNCHANGED <<doc, activeEditor, docLanguageId, config, userEvents,
                 isApplyingLazyLatexEdit, ownEditScanned>>
  /\ UNCHANGED <<scanVars, demuxVars, promptVars>>

\* extension.js:242-261: generateLatexFromText returns, the provider
\* answered with content c.  An empty result is reported (lines 254-258),
\* any other goes to editor.edit.
ManualResolve(t, c) ==
  /\ t \in 1..Len(tasks)
  /\ tasks[t].pc = "manual"
  /\ ~ThrowsBeforeFetch(config.llm)
  /\ LET latex == ProviderResult(c)
         settled == tasks[t].log \o SettleEvents("manual", 0, FALSE, latex)
     IN tasks' =
          IF Len(latex) = 0
            THEN [tasks EXCEPT
                    ![t].pc = "done",
                    ![t].statusShown = FALSE,
                    ![t].outcome = "empty",
                    ![t].log = Append(settled,
                                      Event("notify", "manual", 0, <<>>))]
            ELSE [tasks EXCEPT
                    ![t].pc = "manualEditing",
                    ![t].statusShown = FALSE,
                    ![t].replacements =
                      <<[start |-> tasks[t].selection.start,
                         end |-> tasks[t].selection.end,
                         text |-> latex]>>,
                    ![t].log = Append(settled,
                                      Event("edit", "manual", 0, <<>>))]
  /\ UNCHANGED <<doc, activeEditor, docLanguageId, config, userEvents,
                 isApplyingLazyLatexEdit, ownEditScanned>>
  /\ UNCHANGED <<scanVars, demuxVars, promptVars>>

\* extension.js:243-249: generateLatexFromText throws; the command shows
\* its error message and returns.
ManualReject(t) ==
  /\ t \in 1..Len(tasks)
  /\ tasks[t].pc = "manual"
  /\ tasks' = [tasks EXCEPT
                 ![t].pc = "done",
                 ![t].statusShown = FALSE,
                 ![t].outcome = "failed",
                 ![t].log = Append(@ \o SettleEvents("manual", 0, TRUE, <<>>),
                                   Event("notify", "manual", 0, <<>>))]
  /\ UNCHANGED <<doc, activeEditor, docLanguageId, config, userEvents,
                 isApplyingLazyLatexEdit, ownEditScanned>>
  /\ UNCHANGED <<scanVars, demuxVars, promptVars>>

\* extension.js:261-263: the host applies the edit of the command, the
\* selection's range replaced by latex in the line as it is now; the
\* change event reaches the handler, and the command returns.
ManualEdit(t) ==
  /\ t \in 1..Len(tasks)
  /\ tasks[t].pc = "manualEditing"
  /\ tasks[t].lineNumber < Len(doc)
  /\ LET task == tasks[t]
         n == task.lineNumber
         before == doc[n + 1]
         after == ApplyReplacements(before, task.replacements)
     IN /\ doc' = SubSeq(doc, 1, n) \o SplitLines(after)
                    \o SubSeq(doc, n + 2, Len(doc))
        /\ tasks' = onDidChangeTextDocument(
                      [tasks EXCEPT ![t].pc = "done",
                                    ![t].before = before,
                                    ![t].after = after,
                                    ![t].outcome = "manualApplied"],
                      doc',
                      <<[hasNewline |-> HasNewline(task.replacements[1].text),
                         startLine |-> n]>>)
  /\ Len(tasks') <= MaxTasks
  /\ UNCHANGED <<activeEditor, docLanguageId, config, userEvents,
                 isApplyingLazyLatexEdit, ownEditScanned>>
  /\ UNCHANGED <<scanVars, demuxVars, promptVars>>

---------------------------------------------------------------------------
(* The extension with the provider settings right or wrong: a line is      *)
(* ended with Enter and the command is run on a selection.                 *)

\* An inline wrapper and two ';;;;' wrappers.
ThreeUnitLine == InlineSegment \o AnythingSegment \o AnythingSegment

ErrorLines == {InlineSegment, AnythingSegment, ThreeUnitLine}

\* The selections of the command: none, and the first characters of line 0.
ErrorSelections ==
  {[line |-> 0, start |-> 0, end |-> 0], [line |-> 0, start |-> 0, end |-> 5]}

\* What the provider answers: text, or blank text.
ErrorContents == {<<"A">>, <<" ">>}

ErrorsInit ==
  /\ ScanIdle
  /\ DemuxIdle
  /\ PromptIdle
  /\ \E l \in ErrorLines : doc = <<l>>
  /\ activeEditor = "doc"
  /\ docLanguageId = "latex"
  /\ config \in [autoReplace : {TRUE}, keepOriginalComment : {FALSE},
                 inlineStyle : {"dollar"}, displayStyle : {"brackets"},
                 llm : LlmSettings, contextLines : {ContextLinesUnset}]
  /\ isApplyingLazyLatexEdit = FALSE
  /\ tasks = <<>>
  /\ userEvents = 0
  /\ ownEditScanned = FALSE

ErrorsNext ==
  \/ userEvents = 0 /\ UserEnter(0)
  \/ \E sel \in ErrorSelections : ManualCommand(sel)
  \/ \E t \in 1..Len(tasks), c \in ErrorContents : ManualResolve(t, c)
  \/ \E t \in 1..Len(tasks) : ManualReject(t)
  \/ \E t \in 1..Len(tasks) : ManualEdit(t)
  \/ \E t \in 1..Len(tasks), c \in ErrorContents : BatchResolve(t, c)
  \/ \E t \in 1..Len(tasks) : BatchReject(t)
  \/ \E t \in 1..Len(tasks), c \in ErrorContents : AnythingResolve(t, c)
  \/ \E t \in 1..Len(tasks) : AnythingReject(t)
  \/ \E t \in 1..Len(tasks) : EditApply(t)
  \/ \E t \in 1..Len(tasks) : EditResolve(t)
  \/ \E t \in 1..Len(tasks) : EditReject(t)

SpecErrors == ErrorsInit /\ [][ErrorsNext]_vars

---------------------------------------------------------------------------
(* Properties of the re-entrancy flag.                                     *)

\* The edit transaction of invocation t is in progress: editor.edit was
\* called and has not settled.
EditInProgress(t) == tasks[t].pc \in {"editing", "edited"}

\* C1: whenever an edit transaction of processLineForWrappers is in
\* progress the flag is true, and the handler never scans a line for a
\* change event raised by such an edit.
C1_FlagHeldDuringEveryEdit ==
  /\ \A t \in 1..Len(tasks) : EditInProgress(t) => isApplyingLazyLatexEdit
  /\ ~ownEditScanned

\* C2: once every invocation has finished the flag is false; more, the
\* flag is true only while some edit transaction is in progress.
C2_FlagClearedAfterEveryEdit ==
  /\ (\A t \in 1..Len(tasks) : tasks[t].pc = "done")
       => ~isApplyingLazyLatexEdit
  /\ isApplyingLazyLatexEdit => \E t \in 1..Len(tasks) : EditInProgress(t)

\* C2 witness: two invocations have finished, one whose edit was applied
\* and one whose edit was rejected, and the flag is false.
C2_Witness ==
  /\ Len(tasks) = 2
  /\ \A t \in 1..Len(tasks) : tasks[t].pc = "done"
  /\ \E t \in 1..Len(tasks) : tasks[t].outcome = "applied"
  /\ \E t \in 1..Len(tasks) : tasks[t].outcome = "rejected"
  /\ ~isApplyingLazyLatexEdit

---------------------------------------------------------------------------
(* Properties of processLineForWrappers on one line.                       *)

\* The batch call of the invocation has settled, or was never made.
BatchSettled(task) == task.pc # "batch"

\* The number of inline and display wrappers among the first i wrappers.
MathRank(wrappers, i) ==
  Cardinality({j \in 1..i : wrappers[j].type \in {"inline", "display"}})

\* The k-th output of the batch call, trimmed; empty when there is none.
KthOutput(latexList, k) ==
  IF k <= Len(latexList) THEN Trim(latexList[k]) ELSE <<>>

\* The replacement entries of the invocation that start where w starts.
EntriesAt(task, w) ==
  {e \in 1..Len(task.replacements) : task.replacements[e].start = w.start}

\* C9: once the batch call has settled, the k-th inline or display wrapper
\* of the line, counted from the left without the ';;;;' wrappers, has one
\* replacement entry, made from the k-th output, and has no entry when
\* that output is empty after trimming.
C9_KthMathWrapperGetsKthOutput ==
  \A t \in 1..Len(tasks) :
    BatchSettled(tasks[t]) =>
      \A i \in 1..Len(tasks[t].wrappers) :
        LET task == tasks[t]
            w == task.wrappers[i]
            out == KthOutput(task.latexList, MathRank(task.wrappers, i))
            entries == EntriesAt(task, w)
        IN w.type \in {"inline", "display"} =>
             IF out = <<>>
               THEN entries = {}
               ELSE /\ Cardinality(entries) = 1
                    /\ \A e \in entries :
                         task.replacements[e] =
                           [start |-> w.start, end |-> w.end,
                            text |-> WrappedText(w, out, task.originalLineText,
                                                 OutputDelims)]

\* C9 witness: a line with an inline, a ';;;;' and a display wrapper, in
\* this order; the batch call returned "A" and "B", and the display
\* wrapper, the second math wrapper, has the entry made from "B".
C9_Witness ==
  \E t \in 1..Len(tasks) :
    LET task == tasks[t] IN
    /\ BatchSettled(task)
    /\ Len(task.wrappers) = 3
    /\ task.wrappers[1].type = "inline"
    /\ task.wrappers[2].type = "anything"
    /\ task.wrappers[3].type = "display"
    /\ task.latexList = <<<<"A">>, <<"B">>>>
    /\ \E e \in 1..Len(task.replacements) :
         task.replacements[e] =
           [start |-> task.wrappers[3].start, end |-> task.wrappers[3].end,
            text |-> WrappedText(task.wrappers[3], <<"B">>,
                                 task.originalLineText, OutputDelims)]

\* The edit of the invocation was applied to the document.
EditWasApplied(task) == task.pc = "edited" \/ task.outcome = "applied"

\* The invocation made its last call: it awaits editor.edit or is over.
GenerationOver(task) == task.pc \in {"editing", "edited", "done"}

\* The number of ';;;;' wrappers among the first i wrappers.
AnythingRank(wrappers, i) ==
  Cardinality({j \in 1..i : wrappers[j].type = "anything"})

\* The texts the call for the ';;;;' wrapper number idx (0-based) returned.
ReturnedFor(task, idx) ==
  {task.log[k].text : k \in {k1 \in 1..Len(task.log) :
                               /\ task.log[k1].e = "return"
                               /\ task.log[k1].kind = "anything"
                               /\ task.log[k1].idx = idx}}

\* The output generated for wrapper i of the invocation is empty after
\* trimming: the slot of a math wrapper in the outputs of the batch call,
\* or what the call for a ';;;;' wrapper returned.
EmptyOutput(task, i) ==
  IF task.wrappers[i].type = "anything"
    THEN \E text \in ReturnedFor(task, AnythingRank(task.wrappers, i) - 1) :
           Trim(text) = <<>>
    ELSE KthOutput(task.latexList, MathRank(task.wrappers, i)) = <<>>

\* By how much the entries that start before pos move the text at pos.
RECURSIVE ShiftBefore(_, _)
ShiftBefore(replacements, pos) ==
  IF replacements = <<>>
    THEN 0
    ELSE LET r == Head(replacements)
         IN (IF r.start < pos THEN Len(r.text) - (r.end - r.start) ELSE 0)
              + ShiftBefore(Tail(replacements), pos)

\* C11: a wrapper whose generated output is empty after trimming has no
\* replacement entry, and once the edit of the line is applied its span of
\* the original line, delimiters and payload, stands unchanged in the
\* edited text, moved only by the replacements to its left.
C11_EmptyOutputLeavesSpanUntouched ==
  \A t \in 1..Len(tasks) :
    GenerationOver(tasks[t]) =>
      \A i \in 1..Len(tasks[t].wrappers) :
        LET task == tasks[t]
            w == task.wrappers[i]
            shift == ShiftBefore(task.replacements, w.start)
        IN EmptyOutput(task, i) =>
             /\ EntriesAt(task, w) = {}
             /\ EditWasApplied(task) =>
                  Slice(task.after, w.start + shift, w.end + shift)
                    = Slice(task.originalLineText, w.start, w.end)

\* C11 witness: an edit was applied that replaced a wrapper to the left
\* of a wrapper whose output was empty.
C11_Witness ==
  \E t \in 1..Len(tasks) :
    /\ EditWasApplied(tasks[t])
    /\ \E i \in 1..Len(tasks[t].wrappers) :
         /\ EmptyOutput(tasks[t], i)
         /\ ShiftBefore(tasks[t].replacements, tasks[t].wrappers[i].start) > 0

\* The inline delimiters of the document: '$' and '$', or '\(' and '\)'
\* for a LaTeX document with the paren style.
InlineOpen ==
  IF docLanguageId # "markdown" /\ config.inlineStyle = "paren"
    THEN <<"\\", "(">>
    ELSE <<"$">>

InlineClose ==
  IF docLanguageId # "markdown" /\ config.inlineStyle = "paren"
    THEN <<"\\", ")">>
    ELSE <<"$">>

DisplayOpen ==
  IF docLanguageId = "markdown" \/ config.displayStyle = "dollars"
    THEN <<"$", "$">>
    ELSE <<"\\", "[">>

DisplayClose ==
  IF docLanguageId = "markdown" \/ config.displayStyle = "dollars"
    THEN <<"$", "$">>
    ELSE <<"\\", "]">>

\* The text has a character that is not white space before position pos.
TextBefore(text, pos) ==
  \E k \in 0..(pos - 1) : At(text, k) \notin Whitespace

\* Every character of the text that is before position pos on the line of
\* pos is white space.
AloneOnLineBefore(text, pos) ==
  \A k \in 0..(pos - 1) :
    (\A m \in k..(pos - 1) : At(text, m) # "\n")
      => At(text, k) \in Whitespace

\* C25: in the edited line a display wrapper with a non-empty output
\* stands replaced by the opening delimiter, a line break, the output, a
\* line break, the closing delimiter and a line break, with one line
\* break before them exactly when the original line has a character that
\* is not white space before the wrapper; nothing but white space stands
\* before the opening delimiter on its line.
C25_DisplayBlockOnOwnLines ==
  \A t \in 1..Len(tasks) :
    LET task == tasks[t] IN
    EditWasApplied(task) =>
      \A i \in 1..Len(task.wrappers) :
        LET w == task.wrappers[i]
            out == KthOutput(task.latexList, MathRank(task.wrappers, i))
            block == DisplayOpen \o <<"\n">> \o out \o <<"\n">>
                       \o DisplayClose \o <<"\n">>
            break == IF TextBefore(task.originalLineText, w.start)
                       THEN <<"\n">> ELSE <<>>
            at == w.start + ShiftBefore(task.replacements, w.start)
        IN (w.type = "display" /\ out # <<>>) =>
             /\ Slice(task.after, at, at + Len(break) + Len(block))
                  = break \o block
             /\ AloneOnLineBefore(task.after, at + Len(break))
             /\ break = <<>> => (at = 0 \/ At(task.after, at - 1) # "\n")

\* C25 witness: in a markdown document 'x ;;;b;;; ' was edited to 'x ',
\* '$$', 'A', '$$' and ' ' on lines of their own.
C25_Witness ==
  \E t \in 1..Len(tasks) :
    /\ tasks[t].outcome = "applied"
    /\ tasks[t].originalLineText = TextSegment \o DisplaySegment
    /\ docLanguageId = "markdown"
    /\ tasks[t].after =
         <<"x", " ", "\n", "$", "$", "\n", "A", "\n", "$", "$", "\n", " ">>

\* The set of the replacement entries of an invocation.
EntrySet(replacements) == {replacements[e] : e \in 1..Len(replacements)}

\* text from position i on, with every span of rs replaced by its text,
\* each span taken at its place in text.
RECURSIVE SubstituteFrom(_, _, _)
SubstituteFrom(text, rs, i) ==
  IF i >= Len(text)
    THEN <<>>
    ELSE IF \E r \in rs : r.start = i
      THEN LET r == CHOOSE r \in rs : r.start = i
           IN r.text \o SubstituteFrom(text, rs, r.end)
      ELSE <<At(text, i)>> \o SubstituteFrom(text, rs, i + 1)

\* C10: the line ';;a;; and ;;;b;;;' has the wrappers inline [0,5) 'a' and
\* display [10,17) 'b', and the edits of a line, made one after the other
\* from the largest start down, give the line with every wrapper replaced
\* independently at its place in the original line.
C10_SequentialEditsAreIndependent ==
  \A t \in 1..Len(tasks) :
    LET task == tasks[t] IN
    /\ task.originalLineText = TwoWrapperLine =>
         task.wrappers =
           <<[type |-> "inline", inner |-> <<"a">>, start |-> 0, end |-> 5],
             [type |-> "display", inner |-> <<"b">>, start |-> 10,
              end |-> 17]>>
    /\ EditWasApplied(task) =>
         /\ task.before = task.originalLineText
         /\ task.after = SubstituteFrom(task.originalLineText,
                                        EntrySet(task.replacements), 0)

\* C10 witness: both wrappers of ';;a;; and ;;;b;;;' were replaced, in a
\* LaTeX document with the '$' and '\[' styles, by "A" and "B".
C10_Witness ==
  \E t \in 1..Len(tasks) :
    /\ tasks[t].originalLineText = TwoWrapperLine
    /\ tasks[t].outcome = "applied"
    /\ Len(tasks[t].replacements) = 2
    /\ tasks[t].after =
         <<"$", "A", "$", " ", "a", "n", "d", " ",
           "\n", "\\", "[", "\n", "B", "\n", "\\", "]", "\n">>

---------------------------------------------------------------------------
(* Properties of the generation calls of one line.                         *)

\* The places of the history of an invocation with an entry e of a unit.
EventsOf(task, e, kind, idx) ==
  {k \in 1..Len(task.log) :
     /\ task.log[k].e = e
     /\ task.log[k].kind = kind
     /\ task.log[k].idx = idx}

\* The entries before place k that start a call, and those that end one.
CallsBefore(task, k) == {j \in 1..(k - 1) : task.log[j].e = "call"}

SettledBefore(task, k) ==
  {j \in 1..(k - 1) : task.log[j].e \in {"return", "throw"}}

\* The wrappers of the invocation that are inline or display, in order.
MathPlaces(task) ==
  {i \in 1..Len(task.wrappers) : task.wrappers[i].type \in {"inline", "display"}}

\* The wrappers of the invocation that are ';;;;' wrappers, in order.
AnythingPlaces(task) ==
  {i \in 1..Len(task.wrappers) : task.wrappers[i].type = "anything"}

\* All math wrappers go into one batch call, made with the trimmed payload
\* of each in order, and no batch call is made without a math wrapper.
OneBatchCall(task) ==
  IF MathPlaces(task) = {}
    THEN EventsOf(task, "call", "batch", 0) = {}
    ELSE /\ Cardinality(EventsOf(task, "call", "batch", 0)) = 1
         /\ \A k \in EventsOf(task, "call", "batch", 0) :
              /\ Len(task.log[k].text) = Cardinality(MathPlaces(task))
              /\ \A i \in MathPlaces(task) :
                   task.log[k].text[MathRank(task.wrappers, i)]
                     = Trim(task.wrappers[i].inner)

\* A call starts only when every call made before it has ended, and the
\* calls of the ';;;;' wrappers come after the batch call, left to right.
CallsAreSequential(task) ==
  \A k \in 1..Len(task.log) :
    task.log[k].e = "call" =>
      /\ Cardinality(CallsBefore(task, k))
           = Cardinality(SettledBefore(task, k))
      /\ \A j \in CallsBefore(task, k) :
           \/ task.log[j].kind = "batch" /\ task.log[k].kind = "anything"
           \/ task.log[j].idx < task.log[k].idx

\* The number of calls made for ';;;;' wrapper i once the invocation has
\* made its last call: one, or, with skipBlank, none when the payload of
\* the wrapper is blank.
OneCallPerAnything(task, skipBlank) ==
  \A i \in AnythingPlaces(task) :
    LET calls == EventsOf(task, "call", "anything",
                          AnythingRank(task.wrappers, i) - 1)
    IN /\ Cardinality(calls) <= 1
       /\ GenerationOver(task) =>
            Cardinality(calls) =
              IF skipBlank /\ Trim(task.wrappers[i].inner) = <<>>
                THEN 0 ELSE 1

\* C13 as stated: one batch call for all the math wrappers of the line,
\* one call for every ';;;;' wrapper, and the calls made one after the
\* other.
C13_OneCallPerUnitInSequence ==
  \A t \in 1..Len(tasks) :
    /\ OneBatchCall(tasks[t])
    /\ CallsAreSequential(tasks[t])
    /\ OneCallPerAnything(tasks[t], FALSE)

\* C13 amended: one batch call for all the math wrappers of the line, one
\* call for every ';;;;' wrapper whose payload is not blank and none for
\* the others, and the calls made one after the other.
C13_OneCallPerNonBlankUnitInSequence ==
  \A t \in 1..Len(tasks) :
    /\ OneBatchCall(tasks[t])
    /\ CallsAreSequential(tasks[t])
    /\ OneCallPerAnything(tasks[t], TRUE)

\* C13 witness: the line with an inline wrapper, a blank ';;;;' wrapper
\* and a ';;;;' wrapper with an instruction is over with two calls, the
\* batch call and the call for the second ';;;;' wrapper.
C13_Witness ==
  \E t \in 1..Len(tasks) :
    /\ tasks[t].originalLineText = BlankAnythingLine
    /\ GenerationOver(tasks[t])
    /\ Cardinality({k \in 1..Len(tasks[t].log) : tasks[t].log[k].e = "call"})
         = 2
    /\ EventsOf(tasks[t], "call", "batch", 0) # {}
    /\ EventsOf(tasks[t], "call", "anything", 1) # {}

\* The call of a unit of the invocation threw.
Threw(task, kind, idx) == EventsOf(task, "throw", kind, idx) # {}

\* Once the invocation has made its last call: when the batch call threw
\* every ';;;;' wrapper was called, and when the call of a ';;;;' wrapper
\* threw every later ';;;;' wrapper was called; with skipBlank, only the
\* wrappers whose payload is not blank are meant.
AnythingStillAttempted(task, skipBlank) ==
  \A i \in AnythingPlaces(task) :
    LET idx == AnythingRank(task.wrappers, i) - 1 IN
    (/\ ~skipBlank \/ Trim(task.wrappers[i].inner) # <<>>
     /\ \/ Threw(task, "batch", 0)
        \/ \E j \in 0..(idx - 1) : Threw(task, "anything", j))
      => EventsOf(task, "call", "anything", idx) # {}

\* A failed call leaves its wrappers without a replacement entry, and a
\* call that returned gives each of its wrappers with a non-empty output
\* its entry.
OnlyFailedUnitsAreSkipped(task) ==
  \A i \in 1..Len(task.wrappers) :
    LET w == task.wrappers[i]
        idx == AnythingRank(task.wrappers, i) - 1
    IN IF w.type = "anything"
         THEN /\ Threw(task, "anything", idx) => EntriesAt(task, w) = {}
              /\ \A text \in ReturnedFor(task, idx) :
                   Trim(text) # <<>> =>
                     \E e \in EntriesAt(task, w) :
                       task.replacements[e] =
                         [start |-> w.start, end |-> w.end,
                          text |-> Trim(text)]
         ELSE /\ Threw(task, "batch", 0) => EntriesAt(task, w) = {}
              /\ (~Threw(task, "batch", 0) /\ ~EmptyOutput(task, i)) =>
                   EntriesAt(task, w) # {}

\* The entries of the invocation are applied in one edit: editor.edit is
\* called at most once, and the edited text is the original line with
\* every entry substituted.
AppliedInOneEdit(task) ==
  /\ Cardinality(EventsOf(task, "edit", "line", 0)) <= 1
  /\ EditWasApplied(task) =>
       task.after = SubstituteFrom(task.originalLineText,
                                   EntrySet(task.replacements), 0)

\* C14 as stated: when the batch call fails no math wrapper is replaced
\* and every ';;;;' wrapper is still attempted; when the call of a ';;;;'
\* wrapper fails only that wrapper is skipped and the later ones are
\* attempted; the replacements that succeeded are applied in one edit.
C14_FailuresAreIsolated ==
  \A t \in 1..Len(tasks) :
    GenerationOver(tasks[t]) =>
      /\ AnythingStillAttempted(tasks[t], FALSE)
      /\ OnlyFailedUnitsAreSkipped(tasks[t])
      /\ AppliedInOneEdit(tasks[t])

\* C14 amended: as C14, the ';;;;' wrappers that are still attempted
\* being those whose payload is not blank.
C14_FailuresAreIsolatedForNonBlank ==
  \A t \in 1..Len(tasks) :
    GenerationOver(tasks[t]) =>
      /\ AnythingStillAttempted(tasks[t], TRUE)
      /\ OnlyFailedUnitsAreSkipped(tasks[t])
      /\ AppliedInOneEdit(tasks[t])

\* C14 witness: on a line with an inline wrapper and two ';;;;' wrappers
\* the batch call and the first ';;;;' call threw, the second ';;;;' call
\* returned, and the edit with its one replacement was applied.
C14_Witness ==
  \E t \in 1..Len(tasks) :
    /\ Cardinality(MathPlaces(tasks[t])) = 1
    /\ Cardinality(AnythingPlaces(tasks[t])) = 2
    /\ Threw(tasks[t], "batch", 0)
    /\ Threw(tasks[t], "anything", 0)
    /\ EventsOf(tasks[t], "return", "anything", 1) # {}
    /\ Len(tasks[t].replacements) = 1
    /\ tasks[t].outcome = "applied"

---------------------------------------------------------------------------
(* Properties of the failures of generation calls.                         *)

\* The places of the history of an invocation with an entry e of the unit
\* of entry k.
SameUnit(task, e, k) ==
  EventsOf(task, e, task.log[k].kind, task.log[k].idx)

\* C15: with the API key, the endpoint or the model missing, a call sends
\* no request and shows an error, and once it has thrown the invocation
\* makes no further call and no edit.
C15_ConfigErrorAbortsOperation ==
  \A t \in 1..Len(tasks) :
    ConfigError(config.llm) =>
      \A k \in 1..Len(tasks[t].log) :
        /\ tasks[t].log[k].e # "fetch"
        /\ tasks[t].log[k].e = "throw" =>
             /\ SameUnit(tasks[t], "notify", k) # {}
             /\ \A j \in (k + 1)..Len(tasks[t].log) :
                  tasks[t].log[j].e \notin {"call", "edit"}

\* C16: for every unit of work, the batch of a line, a ';;;;' wrapper or
\* a selection of the command, at most one call is made and at most one
\* request is sent, and none after the unit has failed.
C16_NoRetries ==
  \A t \in 1..Len(tasks) :
    \A k \in 1..Len(tasks[t].log) :
      /\ Cardinality(SameUnit(tasks[t], "call", k)) <= 1
      /\ Cardinality(SameUnit(tasks[t], "fetch", k)) <= 1
      /\ tasks[t].log[k].e = "throw" =>
           \A j \in (k + 1)..Len(tasks[t].log) :
             (tasks[t].log[j].kind = tasks[t].log[k].kind
                /\ tasks[t].log[j].idx = tasks[t].log[k].idx)
               => tasks[t].log[j].e \notin {"call", "fetch"}

\* C16 witness: a line is over whose batch call and first ';;;;' call
\* failed after their requests were sent, and the command has failed.
C16_Witness ==
  /\ \E t \in 1..Len(tasks) :
       /\ tasks[t].kind = "line"
       /\ tasks[t].pc = "done"
       /\ Threw(tasks[t], "batch", 0)
       /\ Threw(tasks[t], "anything", 0)
       /\ EventsOf(tasks[t], "fetch", "batch", 0) # {}
       /\ EventsOf(tasks[t], "call", "anything", 1) # {}
  /\ \E t \in 1..Len(tasks) :
       /\ tasks[t].kind = "manual"
       /\ tasks[t].outcome = "failed"

\* C17: a unit of work that failed has exactly one error message shown
\* for it.
C17_EveryFailureReportedOnce ==
  \A t \in 1..Len(tasks) :
    \A k \in 1..Len(tasks[t].log) :
      tasks[t].log[k].e = "throw" =>
        Cardinality(SameUnit(tasks[t], "notify", k)) = 1

---------------------------------------------------------------------------
(* Properties of the edit of one line.                                     *)

\* The edit of the invocation was submitted.
EditSubmitted(task) == EventsOf(task, "edit", "line", 0) # {}

\* C23: the entries of a submitted edit stand in strictly descending
\* order of start, and when an entry's turn comes the text of the line,
\* with the entries before it already replaced, still holds at the
\* entry's offsets what the original line holds there.
C23_AppliedRightToLeft ==
  \A t \in 1..Len(tasks) :
    LET task == tasks[t]
        rs == task.replacements
    IN EditSubmitted(task) =>
         /\ \A i, j \in 1..Len(rs) : i < j => rs[i].start > rs[j].start
         /\ \A j \in 1..Len(rs) :
              Slice(ApplyReplacements(task.originalLineText,
                                      SubSeq(rs, 1, j - 1)),
                    rs[j].start, rs[j].end)
                = Slice(task.originalLineText, rs[j].start, rs[j].end)

\* C23 witness: on ';;a;; ;;;;c;;;; ;;;b;;; ' the entries were collected
\* in the order inline, display, anything (starts 0, 16, 6) and the edit
\* applies them in the order 16, 6, 0.
C23_Witness ==
  \E t \in 1..Len(tasks) :
    /\ tasks[t].outcome = "applied"
    /\ tasks[t].originalLineText
         = InlineSegment \o AnythingSegment \o DisplaySegment
    /\ Len(tasks[t].replacements) = 3
    /\ tasks[t].replacements[1].start = 16
    /\ tasks[t].replacements[2].start = 6
    /\ tasks[t].replacements[3].start = 0

\* Wrapper i of the invocation received an output that is not empty
\* after trimming.
NonEmptyOutput(task, i) ==
  IF task.wrappers[i].type = "anything"
    THEN \E text \in ReturnedFor(task, AnythingRank(task.wrappers, i) - 1) :
           Trim(text) # <<>>
    ELSE /\ BatchSettled(task)
         /\ KthOutput(task.latexList, MathRank(task.wrappers, i)) # <<>>

\* The members of a set of wrapper numbers, from the left of the line.
InDocumentOrder(task, S) ==
  SelectSeq([i \in 1..Len(task.wrappers) |-> i], LAMBDA i : i \in S)

ServedMath(task) ==
  {i \in 1..Len(task.wrappers) :
     task.wrappers[i].type # "anything" /\ NonEmptyOutput(task, i)}

ServedAnything(task) ==
  {i \in 1..Len(task.wrappers) :
     task.wrappers[i].type = "anything" /\ NonEmptyOutput(task, i)}

\* Entry e of the invocation carries the start and end of wrapper i.
CarriesSpanOf(task, e, i) ==
  /\ task.replacements[e].start = task.wrappers[i].start
  /\ task.replacements[e].end = task.wrappers[i].end

\* The entries of the invocation are, one for one and in this order, those
\* of the wrappers whose numbers the sequence order lists.
EntriesFollow(task, order) ==
  /\ Len(task.replacements) = Len(order)
  /\ \A e \in 1..Len(order) : CarriesSpanOf(task, e, order[e])

\* C24 as stated: entry i comes from the i-th wrapper, in document order,
\* among those that received a non-empty output.
C24_EntriesInMarkerOrder ==
  \A t \in 1..Len(tasks) :
    EntriesFollow(tasks[t],
                  InDocumentOrder(tasks[t], ServedMath(tasks[t])
                                              \cup ServedAnything(tasks[t])))

\* C24: the entries are one for one those of the wrappers that received
\* a non-empty output, each with its wrapper's start and end; until the
\* edit is submitted they stand with the entries of the inline and
\* display wrappers first, in document order, and those of the ';;;;'
\* wrappers after them, in document order.
C24_EntriesInCollectionOrder ==
  \A t \in 1..Len(tasks) :
    LET task == tasks[t]
        served == ServedMath(task) \cup ServedAnything(task)
    IN /\ Len(task.replacements) = Cardinality(served)
       /\ \A i \in served :
            Cardinality({e \in 1..Len(task.replacements) :
                           CarriesSpanOf(task, e, i)}) = 1
       /\ ~EditSubmitted(task) =>
            EntriesFollow(task,
                          InDocumentOrder(task, ServedMath(task))
                            \o InDocumentOrder(task, ServedAnything(task)))

\* C24 witness: on ';;;;c;;;; ;;a;; ;;;;c;;;; ' the entry of the inline
\* wrapper (start 10) stands before the entry of the first ';;;;' wrapper
\* (start 0) while the call for the second is awaited.
C24_Witness ==
  \E t \in 1..Len(tasks) :
    /\ tasks[t].pc = "anything"
    /\ tasks[t].originalLineText
         = AnythingSegment \o InlineSegment \o AnythingSegment
    /\ Len(tasks[t].replacements) = 2
    /\ tasks[t].replacements[1].start = 10
    /\ tasks[t].replacements[1].end = 15
    /\ tasks[t].replacements[2].start = 0
    /\ tasks[t].replacements[2].end = 9

\* C27: when an invocation is over, after its edit was applied, after
\* its edit failed, or without an edit, the status bar message it created
\* is disposed.
C27_StatusDisposedWhenOver ==
  \A t \in 1..Len(tasks) :
    (tasks[t].kind = "line" /\ tasks[t].pc = "done")
      => ~tasks[t].statusShown

\* The lines the edited text of the invocation makes, every replacement
\* entry substituted in the original line, and the empty line that Enter
\* left after the line.
EditedLines(task) ==
  SplitLines(SubstituteFrom(task.originalLineText,
                            EntrySet(task.replacements), 0))
    \o <<<<>>>>

\* The document before the edit of the invocation: the line, and the
\* empty line that Enter left after it.
UneditedLines(task) == <<task.originalLineText, <<>>>>

\* C18: an invocation calls editor.edit at most once, and only with a
\* replacement entry; the document is the unedited one until the edit is
\* applied and from then on holds every replacement of the line (under
\* the comment line, if one is kept), never only some of them.
C18_OneEditWithAllReplacements ==
  \A t \in 1..Len(tasks) :
    LET task == tasks[t] IN
    /\ Cardinality(EventsOf(task, "edit", "line", 0)) <= 1
    /\ GenerationOver(task) =>
         (EventsOf(task, "edit", "line", 0) # {} <=> task.replacements # <<>>)
    /\ IF EditWasApplied(task)
         THEN IF config.keepOriginalComment
                THEN SubSeq(doc, 2, Len(doc)) = EditedLines(task)
                ELSE doc = EditedLines(task)
         ELSE doc = UneditedLines(task)

\* C18 witness: an edit with two or more replacements and the comment
\* line was applied.
C18_Witness ==
  \E t \in 1..Len(tasks) :
    /\ tasks[t].outcome = "applied"
    /\ Len(tasks[t].replacements) >= 2
    /\ config.keepOriginalComment
    /\ SubSeq(doc, 2, Len(doc)) = EditedLines(tasks[t])

\* '% [lazy-latex input] ' and '<!-- [lazy-latex input] '
LatexCommentStart ==
  <<"%", " ", "[", "l", "a", "z", "y", "-", "l", "a", "t", "e", "x", " ",
    "i", "n", "p", "u", "t", "]", " ">>

MarkdownCommentStart ==
  <<"<", "!", "-", "-", " ", "[", "l", "a", "z", "y", "-", "l", "a", "t",
    "e", "x", " ", "i", "n", "p", "u", "t", "]", " ">>

\* The comment line for a line of the document.
CommentLineOf(line) ==
  IF docLanguageId = "markdown"
    THEN MarkdownCommentStart \o line \o <<" ", "-", "-", ">">>
    ELSE LatexCommentStart \o line

\* C19: with keepOriginalComment on, the edit of a line puts the comment
\* form of the original line on a line of its own at the place of the
\* line, the edited text following it, and the document never holds the
\* comment without the replacements; with the option off the edited text
\* stands at the place of the line and no comment is there.
C19_CommentAboveEditedLine ==
  \A t \in 1..Len(tasks) :
    LET task == tasks[t] IN
    IF EditWasApplied(task)
      THEN IF config.keepOriginalComment
             THEN /\ doc[task.lineNumber + 1]
                       = CommentLineOf(task.originalLineText)
                  /\ SubSeq(doc, task.lineNumber + 2, Len(doc))
                       = SplitLines(task.after) \o <<<<>>>>
             ELSE doc = SplitLines(task.after) \o <<<<>>>>
      ELSE \A n \in 1..Len(doc) :
             doc[n] # CommentLineOf(task.originalLineText)

\* C19 witness: in a markdown document with keepOriginalComment on, the
\* line ';;a;; and ;;;b;;;' was edited and the line above the edited text
\* is '<!-- [lazy-latex input] ;;a;; and ;;;b;;; -->'.
C19_Witness ==
  \E t \in 1..Len(tasks) :
    /\ tasks[t].outcome = "applied"
    /\ tasks[t].originalLineText = TwoWrapperLine
    /\ docLanguageId = "markdown"
    /\ config.keepOriginalComment
    /\ doc[1] =
         <<"<", "!", "-", "-", " ", "[", "l", "a", "z", "y", "-", "l", "a",
           "t", "e", "x", " ", "i", "n", "p", "u", "t", "]", " ",
           ";", ";", "a", ";", ";", " ", "a", "n", "d", " ",
           ";", ";", ";", "b", ";", ";", ";", " ", "-", "-", ">">>
    /\ doc[2] = <<"$", "A", "$", " ", "a", "n", "d", " ">>

\* Where the original line starts in its comment line.
CommentOffset ==
  IF docLanguageId = "markdown"
    THEN Len(MarkdownCommentStart)
    ELSE Len(LatexCommentStart)

\* C28: the comment line an edit put into the document holds every
\* wrapper of the original line as it was written, and findWrappersInLine
\* returns nothing for it under the language of the document.
C28_CommentLineIsInert ==
  \A t \in 1..Len(tasks) :
    LET task == tasks[t]
        comment == doc[task.lineNumber + 1]
    IN (EditWasApplied(task) /\ config.keepOriginalComment) =>
         /\ \A i \in 1..Len(task.wrappers) :
              Slice(comment, CommentOffset + task.wrappers[i].start,
                    CommentOffset + task.wrappers[i].end)
                = Slice(task.originalLineText, task.wrappers[i].start,
                        task.wrappers[i].end)
         /\ findWrappersInLine(comment, docLanguageId) = <<>>

\* C28 witness: a markdown line of three wrappers was edited, and its
\* comment line, scanned as the line of a LaTeX document, gives the three
\* wrappers.
C28_Witness ==
  \E t \in 1..Len(tasks) :
    /\ tasks[t].outcome = "applied"
    /\ config.keepOriginalComment
    /\ docLanguageId = "markdown"
    /\ Len(tasks[t].wrappers) = 3
    /\ doc[1] = MarkdownCommentStart \o tasks[t].originalLineText
                  \o <<" ", "-", "-", ">">>
    /\ Len(findWrappersInLine(doc[1], "latex")) = 3
    /\ findWrappersInLine(doc[1], "markdown") = <<>>

---------------------------------------------------------------------------
(* Properties of the context of one line.                                  *)

\* The count c the function works with: the number the setting holds, 50
\* (the setting's default) when it is not set, and none, written 0, when
\* the setting holds null.
ConfiguredCount ==
  IF config.contextLines.kind = "number" THEN config.contextLines.value
  ELSE IF config.contextLines.kind = "unset" THEN 50
  ELSE 0

\* ctx is the given lines joined by line breaks, in their order.
IsJoinOf(ctx, lines) ==
  IF lines = <<>> THEN ctx = <<>> ELSE SplitLines(ctx) = lines

\* C20: the context of line n under count c is the lines max(0, n-c) ..
\* n-1 of the document joined by line breaks in document order: empty
\* when c is 0, negative or null, all n preceding lines when c >= n, and
\* never holding line n itself.
C20_ContextIsWindowBeforeLine ==
  \A t \in 1..Len(tasks) :
    LET n == tasks[t].lineNumber
        c == ConfiguredCount
        ctx == tasks[t].previousContext
    IN /\ c <= 0 => ctx = <<>>
       /\ c > 0 => IsJoinOf(ctx, [i \in 1..(n - Max(0, n - c)) |->
                                    doc[Max(0, n - c) + i]])
       /\ c >= n => IsJoinOf(ctx, SubSeq(doc, 1, n))

\* C20 witness: Enter on the third line with count 1: the context is the
\* second line alone.
C20_Witness ==
  \E t \in 1..Len(tasks) :
    /\ tasks[t].lineNumber = 2
    /\ config.contextLines = ContextLinesNumber(1)
    /\ tasks[t].previousContext = doc[2]
    /\ doc[1] # doc[2]
    /\ doc[2] # doc[3]

---------------------------------------------------------------------------
(* Properties of the handler of change events.                             *)

\* The conditions of the claim on the editor, the language, the setting
\* and the flag.
GateOpen ==
  /\ activeEditor = "doc"
  /\ docLanguageId \in {"latex", "markdown"}
  /\ config.autoReplace
  /\ ~isApplyingLazyLatexEdit

\* The generation calls and the edits in the histories of the invocations.
CallsAndEdits(ts) ==
  UNION {{<<t, k>> : k \in {j \in 1..Len(ts[t].log) :
                              ts[t].log[j].e \in {"call", "edit"}}} :
         t \in 1..Len(ts)}

\* C21: a change of the document (a line ended, a character typed, an
\* edit of the extension applied) starts an invocation, a generation call
\* or an edit only when the active editor shows the document, its
\* language is latex or markdown, autoReplace is on, the flag is not set
\* and the change adds a line break.
C21_OnlyGatedEventsStartGeneration ==
  [][(doc' # doc /\ ~(GateOpen /\ Len(doc') > Len(doc)))
       => /\ Len(tasks') = Len(tasks)
          /\ CallsAndEdits(tasks') = CallsAndEdits(tasks)]_vars

\* C21 witness: both lines of the document were ended with Enter, both
\* hold markers, and only one invocation exists: the other Enter came
\* while the flag was set for the edit of the first.
C21_Witness ==
  /\ userEvents = 2
  /\ Len(tasks) = 1
  /\ tasks[1].pc = "editing"
  /\ isApplyingLazyLatexEdit
  /\ Len(doc) = 4
  /\ doc[2] = <<>>
  /\ doc[4] = <<>>
  /\ doc[3] = DisplayLine

---------------------------------------------------------------------------
(* Properties of the system prompt.                                        *)

\* A source is non-empty when it is a text with a character that is not
\* white space.
NonEmptySource(source) ==
  /\ source.kind \in {"file", "string"}
  /\ \E i \in 1..Len(source.text) : source.text[i] \notin Whitespace

\* The places of a phrase in the prompt.
PlacesOf(phrase) == {i \in 1..Len(systemPrompt) : systemPrompt[i] = phrase}

\* The letters of a text, in order, and those of the prompt between two
\* places.
LettersOf(text) == SelectSeq(text, LAMBDA ch : ch \in {"p", "u"})

LettersBetween(a, b) == LettersOf(SubSeq(systemPrompt, a + 1, b - 1))

\* C22: the built prompt starts with the rules of its function; the
\* 'Additional instructions' phrase is in it exactly when a source is
\* non-empty, the HIGH PRIORITY phrase exactly when the project file is,
\* the LOWER PRIORITY phrase exactly when the user setting is, each once
\* and followed by the text of its source; and the HIGH PRIORITY block
\* comes before the LOWER PRIORITY block.
C22_InstructionSourcesMerged ==
  promptPc = "built" =>
    LET additional == PlacesOf("Additional instructions follow.")
        high == PlacesOf("HIGH PRIORITY from project settings:")
        lower == PlacesOf("LOWER PRIORITY from user settings:")
        end == Len(systemPrompt) + 1
    IN /\ systemPrompt[1] \in {"Rules of generateLatexFromText",
                               "Rules of generateLatexForBatch",
                               "Rules of generateAnythingFromInstruction"}
       /\ additional # {}
            <=> (NonEmptySource(promptFile) \/ NonEmptySource(promptExtra))
       /\ additional = {} => Len(systemPrompt) = 1
       /\ Cardinality(additional) <= 1
       /\ high # {} <=> NonEmptySource(promptFile)
       /\ lower # {} <=> NonEmptySource(promptExtra)
       /\ Cardinality(high) <= 1
       /\ Cardinality(lower) <= 1
       /\ \A a \in additional, h \in high : a < h
       /\ \A a \in additional, l \in lower : a < l
       /\ \A h \in high, l \in lower :
            /\ h < l
            /\ LettersBetween(h, l) = LettersOf(promptFile.text)
       /\ \A h \in high : lower = {} =>
            LettersBetween(h, end) = LettersOf(promptFile.text)
       /\ \A l \in lower :
            LettersBetween(l, end) = LettersOf(promptExtra.text)

\* C22 witness: the batch prompt with the file ' p' and the setting 'u '.
C22_Witness ==
  /\ promptPc = "built"
  /\ promptKind = "batch"
  /\ promptFile = PromptFileWith(<<" ", "p">>)
  /\ promptExtra = PromptExtraString(<<"u", " ">>)
  /\ systemPrompt =
       <<"Rules of generateLatexForBatch", "\n", "\n",
         "Additional instructions follow.", "\n", "\n",
         "HIGH PRIORITY from project settings:", "\n", "p", "\n", "\n",
         "LOWER PRIORITY from user settings:", "\n", "u">>

---------------------------------------------------------------------------
(* Properties of the batch response handling.  The lines of a response are *)
(* described here by counting the line feeds before each character.         *)

\* The number of "\n" among the first p characters of s.
LineFeedsBefore(s, p) == Cardinality({q \in 1..p : s[q] = "\n"})

\* The positions of line j (j = 0, 1, ...) of s that hold a non-blank
\* character ("\r" is blank).
NonBlankOfLine(s, j) ==
  {p \in 1..Len(s) : s[p] \notin Whitespace /\ LineFeedsBefore(s, p) = j}

\* The numbers of the non-blank lines of s.
NonBlankLineNumbers(s) ==
  {j \in 0..Len(s) : NonBlankOfLine(s, j) # {}}

\* Line j of s, trimmed: from its first to its last non-blank character.
TrimmedLine(s, j) ==
  LET nb == NonBlankOfLine(s, j)
      lo == CHOOSE p \in nb : \A q \in nb : p <= q
      hi == CHOOSE p \in nb : \A q \in nb : q <= p
  IN SubSeq(s, lo, hi)

\* The i-th (i = 1, 2, ...) non-blank line of s, trimmed.
IthNonBlankLine(s, i) ==
  LET js == NonBlankLineNumbers(s)
      j == CHOOSE j1 \in js : Cardinality({j2 \in js : j2 < j1}) = i - 1
  IN TrimmedLine(s, j)

\* C8: the batch call returns exactly n strings; slot i is the i-th
\* non-blank line of the response, trimmed, and the slots past the last
\* non-blank line are empty strings.
C8_OutputsArePositional ==
  demuxPc = "returned" =>
    /\ Len(outputs) = Len(descriptions)
    /\ \A i \in 1..Len(descriptions) :
         outputs[i] =
           IF i <= Cardinality(NonBlankLineNumbers(content))
             THEN IthNonBlankLine(content, i)
             ELSE <<>>

\* C8 witness: a response with a blank line between two non-blank lines,
\* for three descriptions: two outputs and an empty third slot.
C8_Witness ==
  /\ demuxPc = "returned"
  /\ Len(descriptions) = 3
  /\ NonBlankLineNumbers(content) = {0, 2}
  /\ outputs[1] # <<>> /\ outputs[2] # <<>> /\ outputs[1] # outputs[2]
  /\ outputs[3] = <<>>

---------------------------------------------------------------------------
(* Properties of the scanner.  Runs of ';' are described here directly on  *)
(* the characters of the line, not through the scanner's own loops.         *)

\* [a, b) is a maximal run of ';' in s.
IsMaximalRun(s, a, b) ==
  /\ 0 <= a /\ a < b /\ b <= Len(s)
  /\ \A i \in a..(b - 1) : At(s, i) = ";"
  /\ (a = 0 \/ At(s, a - 1) # ";")
  /\ (b = Len(s) \/ At(s, b) # ";")

\* A maximal run of exactly c starts at a.
IsRunOf(s, a, c) == IsMaximalRun(s, a, a + c)

\* A maximal run of exactly c starts somewhere after the run of c at a.
HasLaterRunOf(s, a, c) == \E k \in (a + c)..Len(s) : IsRunOf(s, k, c)

\* The start of the first such run.
FirstLaterRunOf(s, a, c) ==
  CHOOSE k \in (a + c)..Len(s) :
    IsRunOf(s, k, c) /\ \A k2 \in (a + c)..(k - 1) : ~IsRunOf(s, k2, c)

\* The delimiter length of a wrapper type.
DelimiterCount(type) ==
  IF type = "inline" THEN 2 ELSE IF type = "display" THEN 3 ELSE 4

\* The trimmed line is comment-only: stated on the first and last
\* non-blank characters of the line.
NonBlankAt(s) == {i \in 1..Len(s) : s[i] \notin Whitespace}

CommentOnly(s, lang) ==
  /\ NonBlankAt(s) # {}
  /\ LET lo == CHOOSE i \in NonBlankAt(s) : \A j \in NonBlankAt(s) : i <= j
         hi == CHOOSE i \in NonBlankAt(s) : \A j \in NonBlankAt(s) : j <= i
     IN \/ lang = "latex" /\ s[lo] = "%"
        \/ /\ lang = "markdown"
           /\ hi - lo + 1 >= 4
           /\ SubSeq(s, lo, lo + 3) = <<"<", "!", "-", "-">>
           /\ SubSeq(s, hi - 2, hi) = <<"-", "-", ">">>

\* The wrapper the claim expects for the run of c at a and the first later
\* run of c.
ExpectedWrapper(s, a, c) ==
  LET k == FirstLaterRunOf(s, a, c) IN
  [type |-> WrapperType(c), inner |-> Slice(s, a + c, k),
   start |-> a, end |-> k + c]

InResults(w) == \E idx \in 1..Len(results) : results[idx] = w

\* Position a lies inside the span of a returned wrapper that starts
\* before a.
InsideEarlierWrapper(a) ==
  \E idx \in 1..Len(results) :
    results[idx].start < a /\ a < results[idx].end

\* A returned wrapper starts at position a.
StartsResult(a) == \E idx \in 1..Len(results) : results[idx].start = a

\* A run of 2, 3 or 4 the scan meets as an opener: one that does not lie
\* inside the span of a wrapper that starts before it.
IsOpener(a, c) ==
  /\ c \in {2, 3, 4}
  /\ IsRunOf(lineText, a, c)
  /\ ~InsideEarlierWrapper(a)

\* b is the first position after the run of c at a where a run of 2, 3 or
\* 4 starts that is followed by a run of its own length.
FirstClosableAfter(a, c, b) ==
  /\ b >= a + c
  /\ \E c2 \in {2, 3, 4} :
       IsRunOf(lineText, b, c2) /\ HasLaterRunOf(lineText, b, c2)
  /\ \A b2 \in (a + c)..(b - 1) :
       \A c2 \in {2, 3, 4} :
         ~(IsRunOf(lineText, b2, c2) /\ HasLaterRunOf(lineText, b2, c2))

\* C26: on a scanned line that is not comment-only, every returned wrapper
\* goes from a run of exactly c to the first later run of exactly c, and
\* its inner is all the text between them, runs of other lengths
\* included; an opener with such a later run starts a wrapper; an opener
\* without one starts none, and the first run after it that can be
\* closed still starts a wrapper.
C26_CloserIsFirstRunOfSameLength ==
  (scanPc = "scanned" /\ ~CommentOnly(lineText, languageId)) =>
    /\ \A idx \in 1..Len(results) :
         LET w == results[idx]
             c == DelimiterCount(w.type)
         IN /\ IsRunOf(lineText, w.start, c)
            /\ IsRunOf(lineText, w.end - c, c)
            /\ w.end - c >= w.start + c
            /\ \A k \in (w.start + c)..(w.end - c - 1) :
                 ~IsRunOf(lineText, k, c)
            /\ w.inner = Slice(lineText, w.start + c, w.end - c)
    /\ \A a \in 0..Len(lineText), c \in {2, 3, 4} :
         IsOpener(a, c) =>
           IF HasLaterRunOf(lineText, a, c)
             THEN StartsResult(a)
             ELSE /\ ~StartsResult(a)
                  /\ \A b \in 0..Len(lineText) :
                       FirstClosableAfter(a, c, b) => StartsResult(b)

\* C26 witness: ';;;-;;-;-;;': the run of 3 has no closer, and the inline
\* wrapper after it runs over the single ';' of its payload.
C26_Witness ==
  /\ scanPc = "scanned"
  /\ languageId = "latex"
  /\ lineText = <<";", ";", ";", "-", ";", ";", "-", ";", "-", ";", ";">>
  /\ results = <<[type |-> "inline", inner |-> <<"-", ";", "-">>,
                  start |-> 4, end |-> 11]>>

\* The maximal runs of ';' of a text that have exactly c characters.
RunsOf(text, c) == {a \in 0..Len(text) : IsRunOf(text, a, c)}

\* C29: every returned wrapper has the type of its delimiter length c,
\* its first c and last c characters are maximal runs of ';' of exactly c
\* in the line, its inner is the text between them, and inner is not
\* empty, neither starts nor ends with ';' and holds no maximal run of
\* exactly c.
C29_WrapperShape ==
  scanPc = "scanned" =>
    \A idx \in 1..Len(results) :
      LET w == results[idx]
          c == IF w.type = "inline" THEN 2
               ELSE IF w.type = "display" THEN 3 ELSE 4
      IN /\ w.type \in {"inline", "display", "anything"}
         /\ 0 <= w.start /\ w.end <= Len(lineText)
         /\ \A p \in w.start..(w.start + c - 1) : At(lineText, p) = ";"
         /\ \A p \in (w.end - c)..(w.end - 1) : At(lineText, p) = ";"
         /\ IsMaximalRun(lineText, w.start, w.start + c)
         /\ IsMaximalRun(lineText, w.end - c, w.end)
         /\ w.inner = Slice(lineText, w.start + c, w.end - c)
         /\ Len(w.inner) > 0
         /\ w.inner[1] # ";"
         /\ w.inner[Len(w.inner)] # ";"
         /\ RunsOf(w.inner, c) = {}

\* C29 witness: ';;;x;;a;;y;;;' gives one display wrapper whose inner,
\* 'x;;a;;y', holds two runs of 2 and none of 3.
C29_Witness ==
  /\ scanPc = "scanned"
  /\ lineText = NestedWrapperLine
  /\ results = <<[type |-> "display",
                  inner |-> <<"x", ";", ";", "a", ";", ";", "y">>,
                  start |-> 0, end |-> 13]>>
  /\ RunsOf(results[1].inner, 2) = {1, 4}

\* The inner loops advance: the run count of lines 42-45 and 66-69 ends
\* after the ';' it starts on, and the closer search of lines 64-91 ends
\* at or after the index it starts from, within the line.
InnerLoopsAdvance ==
  \A k \in 0..(Len(lineText) - 1) :
    /\ At(lineText, k) = ";" =>
         (RunEnd(lineText, k) > k /\ RunEnd(lineText, k) <= Len(lineText))
    /\ \A c \in {2, 3, 4} :
         LET closer == FindCloser(lineText, k, c) IN
         /\ closer.k >= k
         /\ closer.m >= closer.k
         /\ closer.m <= Len(lineText)
         /\ closer.found => closer.m = closer.k + c

\* C30: every iteration of the outer loop leaves i larger than it found
\* it and not past the end of the line, the inner loops advance, and
\* every call returns.
C30_ScanTerminates ==
  /\ [][(scanPc = "looping" /\ scanPc' = "looping")
          => (scanI' > scanI /\ scanI' <= Len(lineText))]_vars
  /\ [](scanPc = "looping" => InnerLoopsAdvance)
  /\ <>(scanPc = "scanned")

\* C30 witness: the call returned on ';;;-;;-', two openers without a
\* closer, and what it returned is what findWrappersInLine gives.
C30_Witness ==
  /\ scanPc = "scanned"
  /\ lineText = <<";", ";", ";", "-", ";", ";", "-">>
  /\ scanI = 7
  /\ results = <<>>
  /\ results = findWrappersInLine(lineText, languageId)

\* C3 as stated: every run of exactly 2, 3 or 4 ';' of a line that is not
\* comment-only, followed later by a run of the same length, gives a
\* wrapper from that run to the first later run of that length, with the
\* text between them as inner.
C3_EveryRunPairGivesWrapper ==
  (scanPc = "scanned" /\ ~CommentOnly(lineText, languageId)) =>
    \A a \in 0..Len(lineText), c \in {2, 3, 4} :
      (IsRunOf(lineText, a, c) /\ HasLaterRunOf(lineText, a, c)) =>
        InResults(ExpectedWrapper(lineText, a, c))

\* C3 amended: the same for every such run that does not lie inside the
\* span of a wrapper that starts before it.
C3_UncoveredRunPairGivesWrapper ==
  (scanPc = "scanned" /\ ~CommentOnly(lineText, languageId)) =>
    \A a \in 0..Len(lineText), c \in {2, 3, 4} :
      (/\ IsRunOf(lineText, a, c)
       /\ HasLaterRunOf(lineText, a, c)
       /\ ~InsideEarlierWrapper(a)) =>
        InResults(ExpectedWrapper(lineText, a, c))

\* C3 witness: a scanned line whose one wrapper is the expected one of a
\* run of 3, with a run of another length inside its inner text that is
\* itself followed by a run of its own length.
C3_Witness ==
  /\ scanPc = "scanned"
  /\ Len(results) = 1
  /\ \E a \in 0..Len(lineText) :
       /\ IsRunOf(lineText, a, 3)
       /\ HasLaterRunOf(lineText, a, 3)
       /\ ~InsideEarlierWrapper(a)
       /\ results[1] = ExpectedWrapper(lineText, a, 3)
  /\ \E a \in 0..Len(lineText) :
       /\ IsRunOf(lineText, a, 2)
       /\ HasLaterRunOf(lineText, a, 2)
       /\ InsideEarlierWrapper(a)

\* C4: a comment-only line gives no wrapper, whatever runs it holds.
C4_CommentOnlyLineGivesNothing ==
  (scanPc = "scanned" /\ CommentOnly(lineText, languageId)) =>
    results = <<>>

\* C4 witness: a scanned comment-only line, with blanks before the comment
\* token, that holds a run of 2 followed by a run of 2.
C4_Witness ==
  /\ scanPc = "scanned"
  /\ CommentOnly(lineText, languageId)
  /\ lineText[1] \in Whitespace
  /\ \E a \in 0..Len(lineText) :
       IsRunOf(lineText, a, 2) /\ HasLaterRunOf(lineText, a, 2)
  /\ results = <<>>

\* C5 as stated: no returned wrapper's span covers a maximal run of ';'
\* whose length is not 2, 3 or 4.
C5_NoWrapperSpanCoversOtherRun ==
  scanPc = "scanned" =>
    \A a \in 0..Len(lineText), b \in 0..Len(lineText) :
      (IsMaximalRun(lineText, a, b) /\ (b - a) \notin {2, 3, 4}) =>
        ~\E idx \in 1..Len(results) :
            results[idx].start <= a /\ b <= results[idx].end

\* C5 amended: no returned wrapper has its opening or closing delimiter in
\* such a run: the opener [start, start+c) and the closer [end-c, end) are
\* both disjoint from it.
C5_NoWrapperDelimiterInOtherRun ==
  scanPc = "scanned" =>
    \A a \in 0..Len(lineText), b \in 0..Len(lineText) :
      (IsMaximalRun(lineText, a, b) /\ (b - a) \notin {2, 3, 4}) =>
        \A idx \in 1..Len(results) :
          LET w == results[idx]
              c == DelimiterCount(w.type)
          IN /\ (w.start + c <= a \/ b <= w.start)
             /\ (w.end <= a \/ b <= w.end - c)

\* C5 witness: a scanned line with a wrapper whose inner text holds a run
\* of 5 or more.
C5_Witness ==
  /\ scanPc = "scanned"
  /\ \E idx \in 1..Len(results) :
       \E a \in 0..Len(lineText), b \in 0..Len(lineText) :
         /\ IsMaximalRun(lineText, a, b) /\ b - a >= 5
         /\ results[idx].start < a /\ b < results[idx].end

\* C6: the wrappers of a line lie inside the line, are not empty, and each
\* ends at or before the start of the next.
C6_WrappersOrderedAndDisjoint ==
  scanPc = "scanned" =>
    /\ \A idx \in 1..Len(results) :
         /\ 0 <= results[idx].start
         /\ results[idx].start < results[idx].end
         /\ results[idx].end <= Len(lineText)
    /\ \A idx \in 1..(Len(results) - 1) :
         /\ results[idx].end <= results[idx + 1].start
         /\ results[idx].start < results[idx + 1].start

\* C6 witness: a scanned line with two wrappers.
C6_Witness == scanPc = "scanned" /\ Len(results) >= 2

\* The results without the last wrapper.
AllButLast(rs) == SubSeq(rs, 1, Len(rs) - 1)

\* C7 as stated: the line without its last wrapper's span scans to the
\* remaining wrappers, unchanged.
C7_RescanGivesRemainingWrappers ==
  scanPc = "rescanned" => rescanned = AllButLast(results)

\* C7 amended: the same, provided the shortened line is not comment-only.
C7_RescanOfNonCommentGivesRemainingWrappers ==
  (scanPc = "rescanned" /\ ~CommentOnly(shortened, languageId)) =>
    rescanned = AllButLast(results)

\* C7 witness: a line with two wrappers was shortened and scanned again,
\* and the first wrapper was found again.
C7_Witness ==
  /\ scanPc = "rescanned"
  /\ Len(results) = 2
  /\ ~CommentOnly(shortened, languageId)
  /\ rescanned = <<results[1]>>

=============================================================================
